---------------------------- MODULE Spec2Model ----------------------------
(***************************************************************************)
(* A model of the HEIF/BMFF reader of goheif: package bmff (box framing,   *)
(* sticky-error reader, typed box parsers) and package heif (the File      *)
(* facade: getMeta, EXIF, PrimaryItem, ItemByID, GetItemData).             *)
(*                                                                         *)
(* Bytes are the integers 0..255 and a byte source is a sequence of them.  *)
(* A uint64 is kept at its full width as the tuple of its 8 big-endian     *)
(* bytes, so that the sums of GetItemData wrap exactly where the code's    *)
(* do.  An error is a string, the nil error is Nil.                        *)
(***************************************************************************)
EXTENDS Integers, Sequences, FiniteSets, TLC

Nil == "nil"

Min(a, b) == IF a < b THEN a ELSE b

\* Binds the value of an expression once: Let(e, LAMBDA x : body).
Let(v, F(_)) == F(v)

Take(s, n) == SubSeq(s, 1, Min(n, Len(s)))

Drop(s, n) == IF n >= Len(s) THEN <<>> ELSE SubSeq(s, n + 1, Len(s))

(***************************************************************************)
(* uint64 arithmetic on 8 big-endian bytes.                                *)
(***************************************************************************)
U64Of(n) ==
  <<0, 0, 0, 0, (n \div 16777216) % 256, (n \div 65536) % 256,
    (n \div 256) % 256, n % 256>>

\* uint64(b) of a 4-byte big-endian field b
U64OfBE32(b) == <<0, 0, 0, 0, b[1], b[2], b[3], b[4]>>

RECURSIVE AddCarry(_, _, _)
\* The carry out of byte position i (1 = most significant) of a + b.
AddCarry(a, b, i) ==
  IF i > 8 THEN 0 ELSE (a[i] + b[i] + AddCarry(a, b, i + 1)) \div 256

\* a + b as Go computes it on uint64: modulo 2^64.
U64Add(a, b) == [i \in 1..8 |-> (a[i] + b[i] + AddCarry(a, b, i + 1)) % 256]

\* Whether the mathematical sum a + b does not fit 64 bits.
U64AddWraps(a, b) == AddCarry(a, b, 1) = 1

RECURSIVE U64LtFrom(_, _, _)
U64LtFrom(a, b, i) ==
  IF i > 8 THEN FALSE
  ELSE IF a[i] # b[i] THEN a[i] < b[i]
  ELSE U64LtFrom(a, b, i + 1)

U64Lt(a, b) == U64LtFrom(a, b, 1)

U64Le(a, b) == ~U64Lt(b, a)

RECURSIVE SubBorrow(_, _, _)
SubBorrow(a, b, i) ==
  IF i > 8 THEN 0
  ELSE IF a[i] - b[i] - SubBorrow(a, b, i + 1) < 0 THEN 1 ELSE 0

\* a - b modulo 2^64.
U64Sub(a, b) == [i \in 1..8 |-> (a[i] - b[i] - SubBorrow(a, b, i + 1) + 256) % 256]

\* The value fits a non-negative 31-bit integer (any length of this model does).
U64Small(a) == a[1] = 0 /\ a[2] = 0 /\ a[3] = 0 /\ a[4] = 0 /\ a[5] < 128

U64ToInt(a) == ((a[5] * 256 + a[6]) * 256 + a[7]) * 256 + a[8]

\* int64(a) < 0: the conversion reinterprets the top bit as the sign.
Int64Negative(a) == a[1] >= 128

BE16(b) == b[1] * 256 + b[2]

BE32(b) == ((b[1] * 256 + b[2]) * 256 + b[3]) * 256 + b[4]

(***************************************************************************)
(* bufReader: a bufio.Reader over a box body with a sticky error.  buf is  *)
(* the unread rest of the body.  Every primitive yields the reader after   *)
(* the call and the value read; the error it returns is br.err.            *)
(***************************************************************************)
NewBufReader(bytes) == [buf |-> bytes, err |-> Nil]

ok(br) == br.err = Nil

anyRemain(br) == IF br.err # Nil THEN FALSE ELSE Len(br.buf) >= 1

readUint8(br) ==
  IF br.err # Nil THEN [br |-> br, v |-> 0]
  ELSE IF Len(br.buf) < 1 THEN [br |-> [br EXCEPT !.err = "EOF"], v |-> 0]
  ELSE [br |-> [br EXCEPT !.buf = Drop(@, 1)], v |-> br.buf[1]]

\* readUint16 without the check of the sticky error.
readUint16Anyway(br) ==
  IF Len(br.buf) < 2 THEN [br |-> [br EXCEPT !.err = "EOF"], v |-> 0]
  ELSE [br |-> [br EXCEPT !.buf = Drop(@, 2)], v |-> BE16(br.buf)]

readUint16(br) ==
  IF br.err # Nil THEN [br |-> br, v |-> 0]
  ELSE IF Len(br.buf) < 2 THEN [br |-> [br EXCEPT !.err = "EOF"], v |-> 0]
  ELSE [br |-> [br EXCEPT !.buf = Drop(@, 2)], v |-> BE16(br.buf)]

\* A uint32 is yielded as its 4 big-endian bytes; BE32 gives its number where
\* the code counts or compares with it.
readUint32(br) ==
  IF br.err # Nil THEN [br |-> br, v |-> <<0, 0, 0, 0>>]
  ELSE IF Len(br.buf) < 4
    THEN [br |-> [br EXCEPT !.err = "EOF"], v |-> <<0, 0, 0, 0>>]
  ELSE [br |-> [br EXCEPT !.buf = Drop(@, 4)], v |-> Take(br.buf, 4)]

\* readUintN yields a uint64 (here its 8 bytes).
readUintN(br, bits) ==
  IF br.err # Nil THEN [br |-> br, v |-> U64Of(0)]
  ELSE IF bits = 0 THEN [br |-> br, v |-> U64Of(0)]
  ELSE LET nbyte == bits \div 8 IN
    IF Len(br.buf) < nbyte THEN [br |-> [br EXCEPT !.err = "EOF"], v |-> U64Of(0)]
    ELSE IF bits = 8
      THEN [br |-> [br EXCEPT !.buf = Drop(@, nbyte)], v |-> U64Of(br.buf[1])]
    ELSE IF bits = 16
      THEN [br |-> [br EXCEPT !.buf = Drop(@, nbyte)], v |-> U64Of(BE16(br.buf))]
    ELSE IF bits = 32
      THEN [br |-> [br EXCEPT !.buf = Drop(@, nbyte)], v |-> U64OfBE32(br.buf)]
    ELSE IF bits = 64
      THEN [br |-> [br EXCEPT !.buf = Drop(@, nbyte)], v |-> Take(br.buf, 8)]
    ELSE \* the deferred Discard still runs
      [br |-> [buf |-> Drop(br.buf, nbyte), err |-> "invalid uintn read size"],
       v |-> U64Of(0)]

RECURSIVE IndexOfNul(_, _)
\* The position of the first 0 byte of s at or after i, or 0 when there is none.
IndexOfNul(s, i) ==
  IF i > Len(s) THEN 0 ELSE IF s[i] = 0 THEN i ELSE IndexOfNul(s, i + 1)

\* ReadString(0) consumes up to and including the NUL; without one it consumes
\* the rest of the body and fails with io.EOF.
readString(br) ==
  IF br.err # Nil THEN [br |-> br, v |-> <<>>]
  ELSE Let(IndexOfNul(br.buf, 1), LAMBDA k :
    IF k = 0 THEN [br |-> [buf |-> <<>>, err |-> "EOF"], v |-> <<>>]
    ELSE [br |-> [br EXCEPT !.buf = Drop(@, k)], v |-> Take(br.buf, k - 1)])

(***************************************************************************)
(* Reader: the box reader over a byte stream.  s is the unread rest of the *)
(* stream; pending is what is left of the last box's body (the N of its    *)
(* io.LimitReader), which the next ReadBox discards; a slurped body leaves *)
(* nothing pending.                                                        *)
(***************************************************************************)
\* A nil pointer or interface value.
NoValue == [kind |-> "none"]

NoBox == [kind |-> "box", size |-> U64Of(0), boxType |-> <<0, 0, 0, 0>>, slurp |-> <<>>, parsed |-> NoValue]

NewReader(s) == [s |-> s, pending |-> U64Of(0), noMoreBoxes |-> FALSE]

\* How many bytes a read of at most n (a uint64) takes from stream s.
Avail(s, n) == IF U64Small(n) THEN Min(U64ToInt(n), Len(s)) ELSE Len(s)

\* io.ReadFull of n bytes from s: io.EOF when nothing is left,
\* io.ErrUnexpectedEOF when fewer than n are; what there is is consumed.
ReadFull(s, n) ==
  IF Len(s) >= n THEN [err |-> Nil, bytes |-> Take(s, n), s |-> Drop(s, n)]
  ELSE IF Len(s) = 0 THEN [err |-> "EOF", bytes |-> <<>>, s |-> s]
  ELSE [err |-> "ErrUnexpectedEOF", bytes |-> s, s |-> <<>>]

\* A ReadBox that leaves the unread part of the last box's body in the stream.
KeepLastBox(r) == r.s

\* io.Copy(ioutil.Discard, r.lastBox.Body()): what is left of the stream once the
\* unread part of the last box's body is thrown away.
DiscardLastBox(r) == Drop(r.s, Avail(r.s, r.pending))

\* A size of 0 that bounds the body by the stream but lets ReadBox go on.
ReadToEOFAndGoOn(r, s) == [r EXCEPT !.s = s, !.pending = U64Of(Len(s))]

\* A size of 0: the body is r.br itself, which ends where the stream s ends, and
\* the Reader returns no more boxes.
ReadToEOF(r, s) == [r EXCEPT !.s = s, !.pending = U64Of(Len(s)), !.noMoreBoxes = TRUE]

\* ReadBox deducting 8 bytes of header from a 64-bit size, where the header has 16.
ReadBoxLargeDeductsEight(r) ==
  IF r.noMoreBoxes THEN [r |-> r, err |-> "EOF", box |-> NoBox]
  ELSE
    \* io.Copy(ioutil.Discard, lastBox.Body()), then the 4 bytes of the size
    Let(ReadFull(DiscardLastBox(r), 4), LAMBDA h1 :
      IF h1.err # Nil
        THEN [r |-> [r EXCEPT !.s = h1.s, !.pending = U64Of(0)], err |-> h1.err, box |-> NoBox]
      ELSE Let(ReadFull(h1.s, 4), LAMBDA h2 :
        IF h2.err # Nil
          THEN [r |-> [r EXCEPT !.s = h2.s, !.pending = U64Of(0)], err |-> h2.err,
                box |-> NoBox]
        ELSE IF h1.bytes = <<0, 0, 0, 1>> THEN
          Let(ReadFull(h2.s, 8), LAMBDA h3 :
            IF h3.err # Nil \/ Int64Negative(h3.bytes) \/ U64Lt(h3.bytes, U64Of(16))
              THEN [r |-> [r EXCEPT !.s = h3.s, !.pending = U64Of(0)],
                    err |-> IF h3.err # Nil THEN h3.err
                            ELSE IF Int64Negative(h3.bytes) THEN "unexpectedly large box"
                            ELSE "negative bytes remain",
                    box |-> NoBox]
            ELSE [r |-> [r EXCEPT !.s = h3.s, !.pending = U64Sub(h3.bytes, U64Of(8))],
                  err |-> Nil,
                  box |-> [NoBox EXCEPT !.size = h3.bytes, !.boxType = h2.bytes]])
        ELSE IF h1.bytes = <<0, 0, 0, 0>> THEN
          \* the body is the rest of the stream; no more boxes
          [r |-> ReadToEOF(r, h2.s), err |-> Nil,
           box |-> [NoBox EXCEPT !.size = U64OfBE32(h1.bytes), !.boxType = h2.bytes]]
        ELSE IF U64Lt(U64OfBE32(h1.bytes), U64Of(8))
          THEN [r |-> [r EXCEPT !.s = h2.s, !.pending = U64Of(0)],
                err |-> "negative bytes remain", box |-> NoBox]
        ELSE [r |-> [r EXCEPT !.s = h2.s,
                              !.pending = U64Sub(U64OfBE32(h1.bytes), U64Of(8))],
              err |-> Nil,
              box |-> [NoBox EXCEPT !.size = U64OfBE32(h1.bytes), !.boxType = h2.bytes]]))

ReadBox(r) ==
  IF r.noMoreBoxes THEN [r |-> r, err |-> "EOF", box |-> NoBox]
  ELSE
    \* io.Copy(ioutil.Discard, lastBox.Body()), then the 4 bytes of the size
    Let(ReadFull(DiscardLastBox(r), 4), LAMBDA h1 :
      IF h1.err # Nil
        THEN [r |-> [r EXCEPT !.s = h1.s, !.pending = U64Of(0)], err |-> h1.err, box |-> NoBox]
      ELSE Let(ReadFull(h1.s, 4), LAMBDA h2 :
        IF h2.err # Nil
          THEN [r |-> [r EXCEPT !.s = h2.s, !.pending = U64Of(0)], err |-> h2.err,
                box |-> NoBox]
        ELSE IF h1.bytes = <<0, 0, 0, 1>> THEN
          Let(ReadFull(h2.s, 8), LAMBDA h3 :
            IF h3.err # Nil \/ Int64Negative(h3.bytes) \/ U64Lt(h3.bytes, U64Of(16))
              THEN [r |-> [r EXCEPT !.s = h3.s, !.pending = U64Of(0)],
                    err |-> IF h3.err # Nil THEN h3.err
                            ELSE IF Int64Negative(h3.bytes) THEN "unexpectedly large box"
                            ELSE "negative bytes remain",
                    box |-> NoBox]
            ELSE [r |-> [r EXCEPT !.s = h3.s, !.pending = U64Sub(h3.bytes, U64Of(16))],
                  err |-> Nil,
                  box |-> [NoBox EXCEPT !.size = h3.bytes, !.boxType = h2.bytes]])
        ELSE IF h1.bytes = <<0, 0, 0, 0>> THEN
          \* the body is the rest of the stream; no more boxes
          [r |-> ReadToEOF(r, h2.s), err |-> Nil,
           box |-> [NoBox EXCEPT !.size = U64OfBE32(h1.bytes), !.boxType = h2.bytes]]
        ELSE IF U64Lt(U64OfBE32(h1.bytes), U64Of(8))
          THEN [r |-> [r EXCEPT !.s = h2.s, !.pending = U64Of(0)],
                err |-> "negative bytes remain", box |-> NoBox]
        ELSE [r |-> [r EXCEPT !.s = h2.s,
                              !.pending = U64Sub(U64OfBE32(h1.bytes), U64Of(8))],
              err |-> Nil,
              box |-> [NoBox EXCEPT !.size = U64OfBE32(h1.bytes), !.boxType = h2.bytes]]))

\* The bytes a reader of the last box's body can see.
Body(r) == Take(r.s, Avail(r.s, r.pending))

\* ioutil.ReadAll(inner.Body()): the body bytes that are there, taken off the stream.
Slurp(r) ==
  [bytes |-> Body(r),
   r |-> [r EXCEPT !.s = Drop(r.s, Avail(r.s, r.pending)), !.pending = U64Of(0)]]

RECURSIVE AppendBoxesLoop(_, _)
AppendBoxesLoop(r, dst) ==
  Let(ReadBox(r), LAMBDA rb :
    IF rb.err = "EOF" THEN [r |-> rb.r, err |-> Nil, boxes |-> dst]
    ELSE IF rb.err # Nil THEN [r |-> rb.r, err |-> rb.err, boxes |-> dst]
    ELSE Let(Slurp(rb.r), LAMBDA sl :
      AppendBoxesLoop(sl.r, Append(dst, [rb.box EXCEPT !.slurp = sl.bytes]))))

parseAppendBoxes(br) ==
  IF br.err # Nil THEN [br |-> br, err |-> br.err, boxes |-> <<>>]
  ELSE Let(AppendBoxesLoop(NewReader(br.buf), <<>>), LAMBDA l :
    [br |-> [buf |-> l.r.s, err |-> l.err], err |-> l.err, boxes |-> l.boxes])

readFullBox(br) ==
  IF Len(br.buf) < 4
    THEN [br |-> br, err |-> "failed to read 4 bytes of FullBox", Version |-> 0, Flags |-> 0]
  ELSE [br |-> [br EXCEPT !.buf = Drop(@, 4)], err |-> Nil,
        Version |-> br.buf[1],
        Flags |-> (br.buf[2] * 256 + br.buf[3]) * 256 + br.buf[4]]

(***************************************************************************)
(* Box types (4 ASCII bytes) and the typed parsers.  A parser yields       *)
(* [err, v]: the error it returns and the typed box (a record whose kind   *)
(* names its Go type).                                                     *)
(***************************************************************************)
TypeFtyp == <<102, 116, 121, 112>>
TypeMeta == <<109, 101, 116, 97>>
TypeHdlr == <<104, 100, 108, 114>>
TypePitm == <<112, 105, 116, 109>>
TypeIinf == <<105, 105, 110, 102>>
TypeInfe == <<105, 110, 102, 101>>
TypeIloc == <<105, 108, 111, 99>>
TypeIdat == <<105, 100, 97, 116>>
TypeIref == <<105, 114, 101, 102>>
TypeIprp == <<105, 112, 114, 112>>
TypeIpco == <<105, 112, 99, 111>>
TypeIpma == <<105, 112, 109, 97>>
TypeIspe == <<105, 115, 112, 101>>
TypeIrot == <<105, 114, 111, 116>>
TypeImir == <<105, 109, 105, 114>>
TypeDinf == <<100, 105, 110, 102>>
TypeDref == <<100, 114, 101, 102>>
TypeHvcC == <<104, 118, 99, 67>>
TypeAv1C == <<97, 118, 49, 67>>

\* The ItemType strings the code compares with.
StrExif == <<69, 120, 105, 102>>
StrMime == <<109, 105, 109, 101>>
StrUri == <<117, 114, 105, 32>>

ErrUnknownBox == "heif: unknown box"

Fail(e) == [err |-> e, v |-> NoValue]

RECURSIVE Parse(_)

RECURSIVE CompatibleLoop(_, _)
CompatibleLoop(buf, acc) ==
  IF Len(buf) < 4 THEN acc  \* Peek(4) fails with io.EOF: return ft, nil
  ELSE CompatibleLoop(Drop(buf, 4), Append(acc, Take(buf, 4)))

parseFileTypeBox(outer, br) ==
  IF Len(br.buf) < 8 THEN Fail("EOF")
  ELSE [err |-> Nil,
        v |-> [kind |-> "FileTypeBox",
               MajorBrand |-> SubSeq(br.buf, 1, 4),
               MinorVersion |-> SubSeq(br.buf, 5, 8),
               Compatible |-> CompatibleLoop(Drop(br.buf, 8), <<>>)]]

parseMetaBox(outer, br) ==
  Let(readFullBox(br), LAMBDA fb :
    IF fb.err # Nil THEN Fail(fb.err)
    ELSE Let(parseAppendBoxes(fb.br), LAMBDA a :
      IF a.err # Nil THEN Fail(a.err)
      ELSE [err |-> Nil,
            v |-> [kind |-> "MetaBox", Version |-> fb.Version, Flags |-> fb.Flags,
                   Children |-> a.boxes]]))

parseItemInfoEntry(outer, br) ==
  Let(readFullBox(br), LAMBDA fb :
  IF fb.err # Nil THEN Fail(fb.err)
  ELSE IF fb.Version # 2 THEN Fail("TODO: found version infe box. Only 2 is supported now.")
  ELSE
    Let(readUint16(fb.br), LAMBDA r1 :
    Let(readUint16(r1.br), LAMBDA r2 :
    IF ~ok(r2.br) THEN Fail(r2.br.err)
    ELSE IF Len(r2.br.buf) < 4 THEN Fail("EOF")
    ELSE
      Let(Take(r2.br.buf, 4), LAMBDA ItemType :
      Let(readString([r2.br EXCEPT !.buf = Drop(@, 4)]), LAMBDA r4 :
      \* mime: ContentType; uri: ItemURIType
      Let(IF ItemType \in {StrMime, StrUri} THEN readString(r4.br)
          ELSE [br |-> r4.br, v |-> <<>>], LAMBDA r5 :
      \* mime: ContentEncoding, if anything remains
      Let(IF ItemType = StrMime /\ anyRemain(r5.br) THEN readString(r5.br)
          ELSE [br |-> r5.br, v |-> <<>>], LAMBDA r6 :
      IF ~ok(r6.br) THEN Fail(r6.br.err)
      ELSE [err |-> Nil,
            v |-> [kind |-> "ItemInfoEntry", Version |-> fb.Version, Flags |-> fb.Flags,
                   ItemID |-> r1.v, ProtectionIndex |-> r2.v, ItemType |-> ItemType,
                   Name |-> r4.v,
                   ContentType |-> IF ItemType = StrMime THEN r5.v ELSE <<>>,
                   ContentEncoding |-> r6.v,
                   ItemURIType |-> IF ItemType = StrUri THEN r5.v ELSE <<>>]])))))))

RECURSIVE ItemInfosLoop(_, _, _)
\* The loop over the slurped children of iinf: [err, infos].
ItemInfosLoop(boxes, i, acc) ==
  IF i > Len(boxes) THEN [err |-> Nil, infos |-> acc]
  ELSE Let(Parse(boxes[i]), LAMBDA pb :
    IF pb.err = ErrUnknownBox THEN ItemInfosLoop(boxes, i + 1, acc)
    ELSE IF pb.err # Nil
      THEN [err |-> "error parsing ItemInfoEntry in ItemInfoBox", infos |-> acc]
    ELSE IF pb.v.kind = "ItemInfoEntry"
      THEN ItemInfosLoop(boxes, i + 1, Append(acc, pb.v))
    ELSE ItemInfosLoop(boxes, i + 1, acc))

parseItemInfoBox(outer, br) ==
  Let(readFullBox(br), LAMBDA fb :
  IF fb.err # Nil THEN Fail(fb.err)
  ELSE
    \* Count: a uint32 from version 1 on, a uint16 before
    Let(IF fb.Version >= 1 THEN readUint32(fb.br)
        ELSE Let(readUint16(fb.br), LAMBDA c16 :
               [br |-> c16.br, v |-> <<0, 0, c16.v \div 256, c16.v % 256>>]), LAMBDA c :
    Let(parseAppendBoxes(c.br), LAMBDA a :
      IF ~ok(a.br) THEN Fail(a.br.err)
      ELSE Let(ItemInfosLoop(a.boxes, 1, <<>>), LAMBDA l :
        IF l.err # Nil THEN Fail(l.err)
        ELSE [err |-> Nil,
              v |-> [kind |-> "ItemInfoBox", Version |-> fb.Version, Flags |-> fb.Flags,
                     Count |-> c.v, ItemInfos |-> l.infos]]))))

RECURSIVE ToItemIDsLoop(_, _, _, _)
\* Count reads of a to-item id; a failed read yields 0 and is appended all the same.
ToItemIDsLoop(br, n, wide, acc) ==
  IF n = 0 THEN acc
  ELSE IF wide
    THEN Let(readUint32(br), LAMBDA r :
           ToItemIDsLoop(r.br, n - 1, wide, Append(acc, BE32(r.v))))
  ELSE Let(readUint16(br), LAMBDA r : ToItemIDsLoop(r.br, n - 1, wide, Append(acc, r.v)))

\* parseItemReferenceEntry ignores every read error and always returns nil.
parseItemReferenceEntry(outer, br, version) ==
  Let(IF version = 0 THEN readUint16(br)
      ELSE Let(readUint32(br), LAMBDA w : [br |-> w.br, v |-> BE32(w.v)]), LAMBDA r1 :
  Let(readUint16(r1.br), LAMBDA r2 :
    [err |-> Nil,
     v |-> [kind |-> "ItemReferenceEntry", box |-> outer, boxType |-> outer.boxType,
            FromItemID |-> r1.v, Count |-> r2.v,
            ToItemIDs |-> ToItemIDsLoop(r2.br, r2.v, version # 0, <<>>)]]))

parseItemReferenceBox(outer, br) ==
  Let(readFullBox(br), LAMBDA fb :
  IF fb.err # Nil THEN Fail(fb.err)
  ELSE Let(parseAppendBoxes(fb.br), LAMBDA a :
    IF ~ok(a.br) THEN Fail(a.br.err)
    ELSE [err |-> Nil,
          v |-> [kind |-> "ItemReferenceBox", Version |-> fb.Version, Flags |-> fb.Flags,
                 ItemRefs |-> [i \in 1..Len(a.boxes) |->
                    parseItemReferenceEntry(a.boxes[i], NewBufReader(a.boxes[i].slurp),
                                            fb.Version).v]]]))

parseItemPropertyContainerBox(outer, br) ==
  Let(parseAppendBoxes(br), LAMBDA a :
    IF a.err # Nil THEN Fail(a.err)
    ELSE [err |-> Nil, v |-> [kind |-> "ItemPropertyContainerBox", Properties |-> a.boxes]])

RECURSIVE AssociationBoxesLoop(_, _, _)
AssociationBoxesLoop(boxes, i, acc) ==
  IF i > Len(boxes) THEN [err |-> Nil, assocs |-> acc]
  ELSE Let(Parse(boxes[i]), LAMBDA boxp :
    IF boxp.err # Nil THEN [err |-> "failed to parse association box", assocs |-> acc]
    ELSE IF boxp.v.kind # "ItemPropertyAssociation"
      THEN [err |-> "unexpected box instead of ItemPropertyAssociation", assocs |-> acc]
    ELSE AssociationBoxesLoop(boxes, i + 1, Append(acc, boxp.v)))

parseItemPropertiesBox(outer, br) ==
  Let(parseAppendBoxes(br), LAMBDA a :
    IF a.err # Nil THEN Fail(a.err)
    ELSE IF Len(a.boxes) < 2 THEN Fail("expect at least 2 boxes in children; got 0")
    ELSE Let(Parse(a.boxes[1]), LAMBDA cb :
      IF cb.err # Nil THEN Fail("failed to parse first box")
      ELSE IF cb.v.kind # "ItemPropertyContainerBox"
        THEN Fail("unexpected type for ItemPropertieBox.PropertyContainer")
      ELSE Let(AssociationBoxesLoop(a.boxes, 2, <<>>), LAMBDA l :
        IF l.err # Nil THEN Fail(l.err)
        ELSE [err |-> Nil,
              v |-> [kind |-> "ItemPropertiesBox", PropertyContainer |-> cb.v,
                     Associations |-> l.assocs]])))

RECURSIVE AssociationsLoop(_, _, _, _)
\* The inner loop of parseItemPropertyAssociation: j < assocCount && br.ok().
AssociationsLoop(br, n, flags, acc) ==
  IF n = 0 \/ ~ok(br) THEN [br |-> br, assocs |-> acc]
  ELSE
    Let(readUint8(br), LAMBDA r1 :
    \* the second byte, read when flags&1 is set
    Let(IF flags % 2 = 1 THEN readUint8(r1.br) ELSE [br |-> r1.br, v |-> 0], LAMBDA r2 :
      AssociationsLoop(r2.br, n - 1, flags,
        Append(acc, [Essential |-> r1.v >= 128,
                     Index |-> IF flags % 2 = 1 THEN (r1.v % 128) * 256 + r2.v
                               ELSE r1.v % 128]))))

RECURSIVE AssociationEntriesLoop(_, _, _, _, _)
\* The outer loop: i < count && br.ok().
AssociationEntriesLoop(br, n, version, flags, acc) ==
  IF n = 0 \/ ~ok(br) THEN [br |-> br, entries |-> acc]
  ELSE
    Let(IF version < 1 THEN readUint16(br)
        ELSE Let(readUint32(br), LAMBDA w : [br |-> w.br, v |-> BE32(w.v)]), LAMBDA itemID :
    Let(readUint8(itemID.br), LAMBDA ac :
    Let(AssociationsLoop(ac.br, ac.v, flags, <<>>), LAMBDA l :
      AssociationEntriesLoop(l.br, n - 1, version, flags,
        Append(acc, [ItemID |-> itemID.v, AssociationsCount |-> ac.v,
                     Associations |-> l.assocs])))))

parseItemPropertyAssociation(outer, br) ==
  Let(readFullBox(br), LAMBDA fb :
  IF fb.err # Nil THEN Fail(fb.err)
  ELSE
    Let(readUint32(fb.br), LAMBDA c :
    Let(AssociationEntriesLoop(c.br, BE32(c.v), fb.Version, fb.Flags, <<>>), LAMBDA l :
      IF ~ok(l.br) THEN Fail(l.br.err)
      ELSE [err |-> Nil,
            v |-> [kind |-> "ItemPropertyAssociation", Version |-> fb.Version,
                   Flags |-> fb.Flags, EntryCount |-> c.v, Entries |-> l.entries]])))

parseImageSpatialExtentsProperty(outer, br) ==
  Let(readFullBox(br), LAMBDA fb :
  IF fb.err # Nil THEN Fail(fb.err)
  ELSE
    Let(readUint32(fb.br), LAMBDA w :
    IF w.br.err # Nil THEN Fail(w.br.err)
    ELSE Let(readUint32(w.br), LAMBDA h :
      IF h.br.err # Nil THEN Fail(h.br.err)
      ELSE [err |-> Nil,
            v |-> [kind |-> "ImageSpatialExtentsProperty", Version |-> fb.Version,
                   Flags |-> fb.Flags, ImageWidth |-> w.v, ImageHeight |-> h.v]])))

RECURSIVE ExtentsLoop(_, _, _, _, _)
\* j < ExtentCount && br.ok(); a failed extent read returns the error at once.
ExtentsLoop(br, n, offsetSize, lengthSize, acc) ==
  IF n = 0 \/ ~ok(br) THEN [br |-> br, err |-> Nil, extents |-> acc]
  ELSE
    Let(readUintN(br, offsetSize * 8), LAMBDA o :
    Let(readUintN(o.br, lengthSize * 8), LAMBDA l :
      IF l.br.err # Nil THEN [br |-> l.br, err |-> l.br.err, extents |-> acc]
      ELSE ExtentsLoop(l.br, n - 1, offsetSize, lengthSize,
                       Append(acc, [Offset |-> o.v, Length |-> l.v]))))

RECURSIVE LocationItemsLoop(_, _, _, _, _)
\* br.ok() && i < ItemCount; hdr holds the nibble header.
LocationItemsLoop(br, n, version, hdr, acc) ==
  IF n = 0 \/ ~ok(br) THEN [br |-> br, err |-> Nil, items |-> acc]
  ELSE
    Let(readUint16(br), LAMBDA id :
    Let(IF version > 0 THEN readUint16(id.br) ELSE [br |-> id.br, v |-> 0], LAMBDA cm :
    Let(readUint16(cm.br), LAMBDA dr :
    \* the base offset: one uint32, or two making up a uint64; none when the
    \* reader failed or baseOffsetSize is neither 4 nor 8
    Let(IF ok(dr.br) /\ hdr.baseOffsetSize = 4
          THEN Let(readUint32(dr.br), LAMBDA bo : [br |-> bo.br, v |-> U64OfBE32(bo.v)])
        ELSE IF ok(dr.br) /\ hdr.baseOffsetSize = 8
          THEN Let(readUint32(dr.br), LAMBDA hi :
               Let(readUint32(hi.br), LAMBDA lo : [br |-> lo.br, v |-> hi.v \o lo.v]))
        ELSE [br |-> dr.br, v |-> U64Of(0)], LAMBDA base :
    Let(readUint16(base.br), LAMBDA ec :
    Let(ExtentsLoop(ec.br, ec.v, hdr.offsetSize, hdr.lengthSize, <<>>), LAMBDA ex :
      IF ex.err # Nil THEN [br |-> ex.br, err |-> ex.err, items |-> acc]
      ELSE LocationItemsLoop(ex.br, n - 1, version, hdr,
             Append(acc, [ItemID |-> id.v,
                          ConstructionMethod |-> cm.v % 16,
                          DataReferenceIndex |-> dr.v,
                          BaseOffset |-> base.v,
                          ExtentCount |-> ec.v,
                          Extents |-> ex.extents]))))))))

parseItemLocationBox(outer, br) ==
  Let(readFullBox(br), LAMBDA fb :
  IF fb.err # Nil THEN Fail(fb.err)
  ELSE IF Len(fb.br.buf) < 4 THEN Fail("EOF")
  ELSE
    Let([offsetSize |-> fb.br.buf[1] \div 16, lengthSize |-> fb.br.buf[1] % 16,
         baseOffsetSize |-> fb.br.buf[2] \div 16,
         indexSize |-> IF fb.Version > 0 THEN fb.br.buf[2] % 16 ELSE 0,
         ItemCount |-> fb.br.buf[3] * 256 + fb.br.buf[4]], LAMBDA hdr :
    Let(LocationItemsLoop([fb.br EXCEPT !.buf = Drop(@, 4)], hdr.ItemCount,
                          fb.Version, hdr, <<>>), LAMBDA l :
      IF l.err # Nil THEN Fail(l.err)
      ELSE IF ~ok(l.br) THEN Fail(l.br.err)
      ELSE [err |-> Nil,
            v |-> [kind |-> "ItemLocationBox", Version |-> fb.Version, Flags |-> fb.Flags,
                   offsetSize |-> hdr.offsetSize, lengthSize |-> hdr.lengthSize,
                   baseOffsetSize |-> hdr.baseOffsetSize, indexSize |-> hdr.indexSize,
                   ItemCount |-> hdr.ItemCount, Items |-> l.items]])))

parseHandlerBox(gen, br) ==
  Let(readFullBox(br), LAMBDA fb :
  IF fb.err # Nil THEN Fail(fb.err)
  ELSE IF Len(fb.br.buf) < 20 THEN Fail("EOF")
  ELSE Let(readString([fb.br EXCEPT !.buf = Drop(@, 20)]), LAMBDA n :
    IF n.br.err # Nil THEN Fail(n.br.err)
    ELSE [err |-> Nil,
          v |-> [kind |-> "HandlerBox", Version |-> fb.Version, Flags |-> fb.Flags,
                 HandlerType |-> SubSeq(fb.br.buf, 5, 8), Name |-> n.v]]))

parseDataInformationBox(gen, br) ==
  Let(parseAppendBoxes(br), LAMBDA a :
    IF a.err # Nil THEN Fail(a.err)
    ELSE [err |-> Nil, v |-> [kind |-> "DataInformationBox", Children |-> a.boxes]])

parseDataReferenceBox(gen, br) ==
  Let(readFullBox(br), LAMBDA fb :
  IF fb.err # Nil THEN Fail(fb.err)
  ELSE
    Let(readUint32(fb.br), LAMBDA c :
    Let(parseAppendBoxes(c.br), LAMBDA a :
      IF a.err # Nil THEN Fail(a.err)
      ELSE [err |-> Nil,
            v |-> [kind |-> "DataReferenceBox", Version |-> fb.Version, Flags |-> fb.Flags,
                   EntryCount |-> c.v, Children |-> a.boxes]])))

\* The item id is read as a uint16 whatever the FullBox version.
parsePrimaryItemBox(gen, br) ==
  Let(readFullBox(br), LAMBDA fb :
  IF fb.err # Nil THEN Fail(fb.err)
  ELSE Let(readUint16(fb.br), LAMBDA id :
    IF ~ok(id.br) THEN Fail(id.br.err)
    ELSE [err |-> Nil,
          v |-> [kind |-> "PrimaryItemBox", Version |-> fb.Version, Flags |-> fb.Flags,
                 ItemID |-> id.v]]))

\* fb.Body() of a slurped box is a new reader over the whole slurp, so Data is
\* the whole body, the 4 bytes readFullBox took included.
parseItemDataBox(gen, br) ==
  Let(readFullBox(br), LAMBDA fb :
  IF fb.err # Nil THEN Fail(fb.err)
  ELSE [err |-> Nil,
        v |-> [kind |-> "ItemDataBox", Version |-> fb.Version, Flags |-> fb.Flags,
               Data |-> gen.slurp]])

parseImageRotation(gen, br) ==
  Let(readUint8(br), LAMBDA r :
  IF r.br.err # Nil THEN Fail(r.br.err)
  ELSE [err |-> Nil, v |-> [kind |-> "ImageRotation", Angle |-> r.v % 4]])

parseImageMirror(gen, br) ==
  Let(readUint8(br), LAMBDA r :
  IF r.br.err # Nil THEN Fail(r.br.err)
  ELSE [err |-> Nil, v |-> [kind |-> "ImageMirror", Mirror |-> r.v % 2]])

RECURSIVE NalUnitsLoop(_, _, _)
\* j < numUnits.  Once the sticky error is set every further size reads as 0 and
\* is skipped, so the loop is cut short there.
NalUnitsLoop(br, n, acc) ==
  IF n = 0 \/ ~ok(br) THEN [br |-> br, err |-> Nil, units |-> acc]
  ELSE Let(readUint16(br), LAMBDA size :
    IF size.v = 0 THEN NalUnitsLoop(size.br, n - 1, acc)  \* ignore empty NAL units
    ELSE Let(ReadFull(size.br.buf, size.v), LAMBDA rf :
      IF rf.err # Nil THEN [br |-> size.br, err |-> rf.err, units |-> acc]
      ELSE NalUnitsLoop([size.br EXCEPT !.buf = rf.s], n - 1, Append(acc, rf.bytes))))

RECURSIVE NalArraysLoop(_, _, _)
NalArraysLoop(br, n, acc) ==
  IF n = 0 THEN [br |-> br, err |-> Nil, arrays |-> acc]
  ELSE
    Let(readUint8(br), LAMBDA ch :
    Let(readUint16(ch.br), LAMBDA nu :
    Let(NalUnitsLoop(nu.br, nu.v, <<>>), LAMBDA l :
      IF l.err # Nil THEN [br |-> l.br, err |-> l.err, arrays |-> acc]
      ELSE NalArraysLoop(l.br, n - 1,
             Append(acc, [completeness |-> (ch.v \div 64) % 2, unitType |-> ch.v % 64,
                          units |-> l.units])))))

RECURSIVE SkipUint8(_, _)
\* n reads of a uint8 whose values are dropped.
SkipUint8(br, n) == IF n = 0 THEN br ELSE SkipUint8(readUint8(br).br, n - 1)

parseItemHevcConfigBox(gen, br) ==
  Let(readUint8(br), LAMBDA version :
  Let(readUint8(version.br), LAMBDA ch1 :
  Let(readUint32(ch1.br), LAMBDA compat :
  \* 6 bytes of general_constraint_indicator_flags, then general_level_idc
  Let(readUint8(SkipUint8(compat.br, 6)), LAMBDA level :
  Let(readUint16(level.br), LAMBDA minSeg :
  Let(readUint8(minSeg.br), LAMBDA par :
  Let(readUint8(par.br), LAMBDA chroma :
  Let(readUint8(chroma.br), LAMBDA luma :
  Let(readUint8(luma.br), LAMBDA bdc :
  Let(readUint16(bdc.br), LAMBDA rate :
  Let(readUint8(rate.br), LAMBDA ch2 :
  Let(readUint8(ch2.br), LAMBDA numArrays :
  IF numArrays.br.err # Nil THEN Fail(numArrays.br.err)
  ELSE Let(NalArraysLoop(numArrays.br, numArrays.v, <<>>), LAMBDA l :
    IF l.err # Nil THEN Fail(l.err)
    ELSE IF ~ok(l.br) THEN Fail(l.br.err)
    ELSE [err |-> Nil,
          v |-> [kind |-> "ItemHevcConfigBox", box |-> gen,
                 config |-> [version |-> version.v,
                             generalProfileSpace |-> (ch1.v \div 64) % 4,
                             generalTierFlag |-> (ch1.v \div 32) % 2,
                             generalProfileIdc |-> ch1.v % 32,
                             generalProfileCompatibilityFlags |-> compat.v,
                             generalLevelIdc |-> level.v,
                             minSpatialSegmentationIdc |-> minSeg.v,
                             parallelismType |-> par.v,
                             chromaFormat |-> chroma.v,
                             bitDepthLuma |-> luma.v,
                             bitDepthChroma |-> bdc.v,
                             avgFrameRate |-> rate.v,
                             constantFrameRate |-> (ch2.v \div 64) % 4,
                             numTemporalLayers |-> (ch2.v \div 8) % 8,
                             temporalIdNested |-> (ch2.v \div 4) % 2],
                 nalArray |-> l.arrays]])))))))))))))

\* After its four header bytes the parser reads bytes until readUint8 fails; that
\* failure sets the sticky error, and the final br.ok() check then returns it:
\* no av1C body parses.
parseItemAv1ConfigBox(gen, br) ==
  Let(SkipUint8(br, 4), LAMBDA b4 :
  IF b4.err # Nil THEN Fail(b4.err) ELSE Fail("EOF"))

\* parser(b, &bufReader{Reader: bufio.NewReader(body)}) for the parsers map.
ParseBody(b, body) ==
  LET br == NewBufReader(body)
      t == b.boxType
  IN
  IF t = TypeDinf THEN parseDataInformationBox(b, br)
  ELSE IF t = TypeDref THEN parseDataReferenceBox(b, br)
  ELSE IF t = TypeFtyp THEN parseFileTypeBox(b, br)
  ELSE IF t = TypeHdlr THEN parseHandlerBox(b, br)
  ELSE IF t = TypeIinf THEN parseItemInfoBox(b, br)
  ELSE IF t = TypeInfe THEN parseItemInfoEntry(b, br)
  ELSE IF t = TypeIloc THEN parseItemLocationBox(b, br)
  ELSE IF t = TypeIpco THEN parseItemPropertyContainerBox(b, br)
  ELSE IF t = TypeIpma THEN parseItemPropertyAssociation(b, br)
  ELSE IF t = TypeIprp THEN parseItemPropertiesBox(b, br)
  ELSE IF t = TypeIrot THEN parseImageRotation(b, br)
  ELSE IF t = TypeImir THEN parseImageMirror(b, br)
  ELSE IF t = TypeIspe THEN parseImageSpatialExtentsProperty(b, br)
  ELSE IF t = TypeMeta THEN parseMetaBox(b, br)
  ELSE IF t = TypePitm THEN parsePrimaryItemBox(b, br)
  ELSE IF t = TypeIdat THEN parseItemDataBox(b, br)
  ELSE IF t = TypeIref THEN parseItemReferenceBox(b, br)
  ELSE IF t = TypeHvcC THEN parseItemHevcConfigBox(b, br)
  ELSE IF t = TypeAv1C THEN parseItemAv1ConfigBox(b, br)
  ELSE Fail(ErrUnknownBox)

\* box.Parse of a slurped box; a box parsed before returns its cached value.
Parse(b) ==
  IF b.parsed # NoValue THEN [err |-> Nil, v |-> b.parsed]
  ELSE ParseBody(b, b.slurp)

\* ReadAndParseBox: the next box of the reader must be of type typ and parse.
\* A top-level box is not slurped: its parser reads the body off the stream.
ReadAndParseBox(r, typ) ==
  Let(ReadBox(r), LAMBDA rb :
    IF rb.err # Nil THEN [r |-> rb.r, err |-> "error reading box", v |-> NoValue]
    ELSE IF rb.box.boxType # typ
      THEN [r |-> rb.r, err |-> "error reading box: got another box type", v |-> NoValue]
    ELSE Let(ParseBody(rb.box, Body(rb.r)), LAMBDA pbox :
      IF pbox.err # Nil THEN [r |-> rb.r, err |-> "error parsing read box", v |-> NoValue]
      ELSE [r |-> rb.r, err |-> Nil, v |-> pbox.v]))

(***************************************************************************)
(* Package heif: the File facade.  A File is [ra, metaErr, meta, reads]; an *)
(* operation yields the File after the call and what it returns.  reads is *)
(* a history field: how many times getMeta set out to read the source.     *)
(***************************************************************************)
ErrNoEXIF == "heif: no EXIF found"

ErrUnknownItem == "heif: unknown item"

EmptyBoxMeta ==
  [kind |-> "BoxMeta", FileType |-> NoValue, Handler |-> NoValue,
   PrimaryItem |-> NoValue, ItemInfo |-> NoValue, Properties |-> NoValue,
   ItemLocation |-> NoValue, ItemData |-> NoValue, ItemReference |-> NoValue]

RECURSIVE FirstExif(_, _)
FirstExif(infos, i) ==
  IF i > Len(infos) THEN 0
  ELSE IF infos[i].ItemType = StrExif THEN infos[i].ItemID
  ELSE FirstExif(infos, i + 1)

\* The item id of the EXIF part, or 0 if not found.
EXIFItemID(m) ==
  IF m.ItemInfo = NoValue THEN 0 ELSE FirstExif(m.ItemInfo.ItemInfos, 1)

\* The stored error is replaced only when one is already stored.
setMetaErr(f, err) == [f EXCEPT !.metaErr = IF f.metaErr # Nil THEN err ELSE @]

RECURSIVE MetaChildrenLoop(_, _, _)
\* The loop of getMeta over metabox.Children: [err, meta].
MetaChildrenLoop(children, i, m) ==
  IF i > Len(children) THEN [err |-> Nil, meta |-> m]
  ELSE Let(Parse(children[i]), LAMBDA boxp :
    IF boxp.err = ErrUnknownBox THEN MetaChildrenLoop(children, i + 1, m)
    ELSE IF boxp.err # Nil THEN [err |-> boxp.err, meta |-> m]
    ELSE LET k == boxp.v.kind IN
      MetaChildrenLoop(children, i + 1,
        IF k = "HandlerBox" THEN [m EXCEPT !.Handler = boxp.v]
        ELSE IF k = "PrimaryItemBox" THEN [m EXCEPT !.PrimaryItem = boxp.v]
        ELSE IF k = "ItemInfoBox" THEN [m EXCEPT !.ItemInfo = boxp.v]
        ELSE IF k = "ItemPropertiesBox" THEN [m EXCEPT !.Properties = boxp.v]
        ELSE IF k = "ItemLocationBox" THEN [m EXCEPT !.ItemLocation = boxp.v]
        ELSE IF k = "ItemDataBox" THEN [m EXCEPT !.ItemData = boxp.v]
        ELSE IF k = "ItemReferenceBox" THEN [m EXCEPT !.ItemReference = boxp.v]
        ELSE m))

\* Open returns a handle and reads nothing.
Open(src) == [ra |-> src, metaErr |-> Nil, meta |-> NoValue, reads |-> 0]

\* getMeta without the second early return: the source is read on every call that
\* finds no sticky error.
getMetaUncached(f) ==
  IF f.metaErr # Nil THEN [f |-> f, err |-> f.metaErr, meta |-> NoValue]
  ELSE
    Let([f EXCEPT !.reads = @ + 1], LAMBDA g :
    Let(ReadAndParseBox(NewReader(g.ra), TypeFtyp), LAMBDA ft :
      IF ft.err # Nil THEN [f |-> setMetaErr(g, ft.err), err |-> ft.err, meta |-> NoValue]
      ELSE Let(ReadAndParseBox(ft.r, TypeMeta), LAMBDA mb :
        IF mb.err # Nil
          THEN [f |-> setMetaErr(g, mb.err), err |-> mb.err, meta |-> NoValue]
        ELSE Let(MetaChildrenLoop(mb.v.Children, 1,
                                  [EmptyBoxMeta EXCEPT !.FileType = ft.v]), LAMBDA l :
          IF l.err # Nil
            THEN [f |-> setMetaErr(g, l.err), err |-> l.err, meta |-> NoValue]
          ELSE [f |-> [g EXCEPT !.meta = l.meta], err |-> Nil, meta |-> l.meta]))))

\* getMeta: [f, err, meta].  The section reader's 5 TiB limit is beyond any
\* source of the model.
getMeta(f) ==
  IF f.metaErr # Nil THEN [f |-> f, err |-> f.metaErr, meta |-> NoValue]
  ELSE IF f.meta # NoValue THEN [f |-> f, err |-> Nil, meta |-> f.meta]
  ELSE
    Let([f EXCEPT !.reads = @ + 1], LAMBDA g :
    Let(ReadAndParseBox(NewReader(g.ra), TypeFtyp), LAMBDA ft :
      IF ft.err # Nil THEN [f |-> setMetaErr(g, ft.err), err |-> ft.err, meta |-> NoValue]
      ELSE Let(ReadAndParseBox(ft.r, TypeMeta), LAMBDA mb :
        IF mb.err # Nil
          THEN [f |-> setMetaErr(g, mb.err), err |-> mb.err, meta |-> NoValue]
        ELSE Let(MetaChildrenLoop(mb.v.Children, 1,
                                  [EmptyBoxMeta EXCEPT !.FileType = ft.v]), LAMBDA l :
          IF l.err # Nil
            THEN [f |-> setMetaErr(g, l.err), err |-> l.err, meta |-> NoValue]
          ELSE [f |-> [g EXCEPT !.meta = l.meta], err |-> Nil, meta |-> l.meta]))))

\* A scan that matches nothing: what ItemByID's loops would yield if no element's
\* ItemID were ever equal to id.
NeverMatching(s, i, id, found) == found

RECURSIVE LastMatching(_, _, _, _)
\* The last element of s whose ItemID is id (each match overwrites the one before).
LastMatching(s, i, id, found) ==
  IF i > Len(s) THEN found
  ELSE LastMatching(s, i + 1, id, IF s[i].ItemID = id THEN s[i] ELSE found)

RECURSIVE RefsFrom(_, _, _, _)
RefsFrom(refs, i, id, acc) ==
  IF i > Len(refs) THEN acc
  ELSE RefsFrom(refs, i + 1, id, IF refs[i].FromItemID = id THEN Append(acc, refs[i]) ELSE acc)

RECURSIVE ItemAssociationsLoopRaw(_, _, _, _)
\* The loop appending the raw box, never its parsed value.
ItemAssociationsLoopRaw(ass, j, allProps, props) ==
  IF j > Len(ass) THEN [allProps |-> allProps, props |-> props]
  ELSE IF ass[j].Index # 0 /\ ass[j].Index <= Len(allProps)
    THEN ItemAssociationsLoopRaw(ass, j + 1, allProps, Append(props, allProps[ass[j].Index]))
  ELSE ItemAssociationsLoopRaw(ass, j + 1, allProps, props)

RECURSIVE ItemAssociationsLoop(_, _, _, _)
\* for _, ass := range ipai.Associations.  st is [allProps, props]: the property
\* pool (a box parsed here caches its typed value) and it.Properties.
ItemAssociationsLoop(ass, j, allProps, props) ==
  IF j > Len(ass) THEN [allProps |-> allProps, props |-> props]
  ELSE IF ass[j].Index # 0 /\ ass[j].Index <= Len(allProps) THEN
    LET box == allProps[ass[j].Index] IN
    Let(Parse(box), LAMBDA boxp :
      IF boxp.err = Nil
        THEN ItemAssociationsLoop(ass, j + 1,
               [allProps EXCEPT ![ass[j].Index].parsed = boxp.v], Append(props, boxp.v))
      ELSE ItemAssociationsLoop(ass, j + 1, allProps, Append(props, box)))
  ELSE ItemAssociationsLoop(ass, j + 1, allProps, props)

RECURSIVE ItemEntriesLoop(_, _, _, _, _)
\* for _, ipai := range ipa.Entries
ItemEntriesLoop(entries, e, id, allProps, props) ==
  IF e > Len(entries) THEN [allProps |-> allProps, props |-> props]
  ELSE IF entries[e].ItemID # id THEN ItemEntriesLoop(entries, e + 1, id, allProps, props)
  ELSE Let(ItemAssociationsLoop(entries[e].Associations, 1, allProps, props), LAMBDA l :
    ItemEntriesLoop(entries, e + 1, id, l.allProps, l.props))

RECURSIVE ItemIpaLoopMergesAll(_, _, _, _, _)
\* The loop over the ipma boxes without the break: every box contributes.
ItemIpaLoopMergesAll(assocs, a, id, allProps, props) ==
  IF a > Len(assocs) THEN [allProps |-> allProps, props |-> props]
  ELSE Let(ItemEntriesLoop(assocs[a].Entries, 1, id, allProps, props), LAMBDA l :
    ItemIpaLoopMergesAll(assocs, a + 1, id, l.allProps, l.props))

RECURSIVE ItemIpaLoop(_, _, _, _, _)
\* for _, ipa := range meta.Properties.Associations, left once a previous ipa
\* found anything.
ItemIpaLoop(assocs, a, id, allProps, props) ==
  IF a > Len(assocs) \/ Len(props) > 0 THEN [allProps |-> allProps, props |-> props]
  ELSE Let(ItemEntriesLoop(assocs[a].Entries, 1, id, allProps, props), LAMBDA l :
    ItemIpaLoop(assocs, a + 1, id, l.allProps, l.props))

\* ItemByID: [f, err, it].
ItemByID(f, id) ==
  Let(getMeta(f), LAMBDA gm :
    IF gm.err # Nil THEN [f |-> gm.f, err |-> gm.err, it |-> NoValue]
    ELSE
      LET m == gm.meta
          Location == IF m.ItemLocation = NoValue THEN NoValue
                      ELSE LastMatching(m.ItemLocation.Items, 1, id, NoValue)
          References == IF m.ItemReference = NoValue THEN <<>>
                        ELSE RefsFrom(m.ItemReference.ItemRefs, 1, id, <<>>)
          Info == IF m.ItemInfo = NoValue THEN NoValue
                  ELSE LastMatching(m.ItemInfo.ItemInfos, 1, id, NoValue)
      IN
      IF Info = NoValue THEN [f |-> gm.f, err |-> ErrUnknownItem, it |-> NoValue]
      ELSE IF m.Properties = NoValue
        THEN [f |-> gm.f, err |-> Nil,
              it |-> [kind |-> "Item", ID |-> id, Info |-> Info, Location |-> Location,
                      Properties |-> <<>>, References |-> References]]
      ELSE Let(ItemIpaLoop(m.Properties.Associations, 1, id,
                           m.Properties.PropertyContainer.Properties, <<>>), LAMBDA pl :
        [f |-> [gm.f EXCEPT !.meta.Properties.PropertyContainer.Properties = pl.allProps],
         err |-> Nil,
         it |-> [kind |-> "Item", ID |-> id, Info |-> Info, Location |-> Location,
                 Properties |-> pl.props, References |-> References]]))

\* PrimaryItem: [f, err, it].
PrimaryItem(f) ==
  Let(getMeta(f), LAMBDA gm :
    IF gm.err # Nil THEN [f |-> gm.f, err |-> gm.err, it |-> NoValue]
    ELSE IF gm.meta.PrimaryItem = NoValue
      THEN [f |-> gm.f, err |-> "heif: HEIF file lacks primary item box", it |-> NoValue]
    ELSE ItemByID(gm.f, gm.meta.PrimaryItem.ItemID))

maxSize == 200 * 1048576

\* f.ra.ReadAt(buf, off) of a bytes.Reader (what asReaderAt hands to Open) for a
\* buffer of n bytes; pos is the uint64 that int64(...) converts.
ReadAt(ra, n, pos) ==
  IF Int64Negative(pos) THEN [err |-> "bytes.Reader.ReadAt: negative offset", bytes |-> <<>>]
  ELSE IF ~U64Small(pos) \/ U64ToInt(pos) >= Len(ra) THEN [err |-> "EOF", bytes |-> <<>>]
  ELSE IF Len(ra) - U64ToInt(pos) < n THEN [err |-> "EOF", bytes |-> <<>>]
  ELSE [err |-> Nil, bytes |-> SubSeq(ra, U64ToInt(pos) + 1, U64ToInt(pos) + n)]

NoData == [alias |-> FALSE, off |-> 0, bytes |-> <<>>]

\* GetItemData: [res, err, data].  res is "value", "error" or "panic" (a run-time
\* panic of the Go code).  data.alias says that the returned slice shares its
\* backing array with f.meta.ItemData.Data, from index data.off on.
GetItemData(f, it) ==
  IF it.Location = NoValue
    THEN [res |-> "error", err |-> "heif: item has no location", data |-> NoData]
  ELSE IF Len(it.Location.Extents) # 1
    THEN [res |-> "error", err |-> "heif: expected 1 section", data |-> NoData]
  ELSE Let(it.Location.Extents[1], LAMBDA offLen :
    IF it.Location.ConstructionMethod = 1 THEN
      IF f.meta.ItemData = NoValue
        THEN [res |-> "error", err |-> "heif: no idat for item", data |-> NoData]
      ELSE Let(U64Add(offLen.Offset, offLen.Length), LAMBDA sum :
        IF U64Lt(U64Of(Len(f.meta.ItemData.Data)), sum)
          THEN [res |-> "error", err |-> "heif: idat out of bound", data |-> NoData]
        ELSE IF U64Lt(sum, offLen.Offset)
          \* Data[Offset : Offset+Length] with low > high: slice bounds out of range
          THEN [res |-> "panic", err |-> Nil, data |-> NoData]
        ELSE [res |-> "value", err |-> Nil,
              data |-> [alias |-> TRUE, off |-> U64ToInt(offLen.Offset),
                        bytes |-> SubSeq(f.meta.ItemData.Data, U64ToInt(offLen.Offset) + 1,
                                         U64ToInt(sum))]])
    ELSE IF U64Lt(U64Of(maxSize), offLen.Length)
      THEN [res |-> "error", err |-> "heif: declared size exceeds threshold", data |-> NoData]
    ELSE Let(ReadAt(f.ra, U64ToInt(offLen.Length),
                    U64Add(offLen.Offset, it.Location.BaseOffset)), LAMBDA rd :
      IF rd.err # Nil THEN [res |-> "error", err |-> rd.err, data |-> NoData]
      ELSE [res |-> "value", err |-> Nil,
            data |-> [alias |-> FALSE, off |-> 0, bytes |-> rd.bytes]]))

\* EXIF returning data[3:]: one byte less is stripped than the code strips.
EXIFStripsThree(f) ==
  Let(getMeta(f), LAMBDA gm :
    IF gm.err # Nil THEN [f |-> gm.f, res |-> "error", err |-> gm.err, data |-> NoData]
    ELSE Let(EXIFItemID(gm.meta), LAMBDA exifID :
      IF exifID = 0
        THEN [f |-> gm.f, res |-> "error", err |-> ErrNoEXIF, data |-> NoData]
      ELSE Let(ItemByID(gm.f, exifID), LAMBDA ib :
        IF ib.err # Nil
          THEN [f |-> ib.f, res |-> "error", err |-> ib.err, data |-> NoData]
        ELSE Let(GetItemData(ib.f, ib.it), LAMBDA gd :
          IF gd.res # "value"
            THEN [f |-> ib.f, res |-> gd.res, err |-> gd.err, data |-> NoData]
          ELSE IF Len(gd.data.bytes) < 3
            THEN [f |-> ib.f, res |-> "panic", err |-> Nil, data |-> NoData]
          ELSE [f |-> ib.f, res |-> "value", err |-> Nil,
                data |-> [alias |-> gd.data.alias, off |-> gd.data.off + 3,
                          bytes |-> SubSeq(gd.data.bytes, 4, Len(gd.data.bytes))]]))))

\* EXIF: [f, res, err, data].
EXIF(f) ==
  Let(getMeta(f), LAMBDA gm :
    IF gm.err # Nil THEN [f |-> gm.f, res |-> "error", err |-> gm.err, data |-> NoData]
    ELSE Let(EXIFItemID(gm.meta), LAMBDA exifID :
      IF exifID = 0
        THEN [f |-> gm.f, res |-> "error", err |-> ErrNoEXIF, data |-> NoData]
      ELSE Let(ItemByID(gm.f, exifID), LAMBDA ib :
        IF ib.err # Nil
          THEN [f |-> ib.f, res |-> "error", err |-> ib.err, data |-> NoData]
        ELSE Let(GetItemData(ib.f, ib.it), LAMBDA gd :
          IF gd.res # "value"
            THEN [f |-> ib.f, res |-> gd.res, err |-> gd.err, data |-> NoData]
          ELSE IF Len(gd.data.bytes) < 4
            \* data[4:] of a shorter slice: slice bounds out of range
            THEN [f |-> ib.f, res |-> "panic", err |-> Nil, data |-> NoData]
          ELSE [f |-> ib.f, res |-> "value", err |-> Nil,
                data |-> [alias |-> gd.data.alias, off |-> gd.data.off + 4,
                          bytes |-> SubSeq(gd.data.bytes, 5, Len(gd.data.bytes))]]))))

(***************************************************************************)
(* The byte sources the File is opened over.  Each is written from a       *)
(* description d in the wire layout the parsers above read: an ftyp box, a *)
(* meta box with the children d asks for, and trailing bytes.              *)
(***************************************************************************)
MkU16(n) == <<(n \div 256) % 256, n % 256>>

MkU32(n) == <<(n \div 16777216) % 256, (n \div 65536) % 256, (n \div 256) % 256, n % 256>>

RECURSIVE ConcatFrom(_, _)
ConcatFrom(ss, i) == IF i > Len(ss) THEN <<>> ELSE ss[i] \o ConcatFrom(ss, i + 1)

Concat(ss) == ConcatFrom(ss, 1)

\* A box with a 32-bit size covering its header and body.
MkBox(type, body) == MkU32(8 + Len(body)) \o type \o body

\* Major brand "heic", minor version 0, compatible brand "mif1".
FtypBody == <<104, 101, 105, 99>> \o <<0, 0, 0, 0>> \o <<109, 105, 102, 49>>

MkFtyp == MkBox(TypeFtyp, FtypBody)

\* A box written with the header h: the 4 bytes of its size field, its type, the 8
\* bytes of its largesize (none unless the size field is 1), then the body.
MkBoxWith(h, type, body) == h.size \o type \o h.large \o body

\* hdlr: FullBox, pre_defined, handler type "pict", 12 reserved bytes, name.
MkHdlr(name) ==
  MkBox(TypeHdlr, <<0, 0, 0, 0>> \o <<0, 0, 0, 0>> \o <<112, 105, 99, 116>>
                  \o [i \in 1..12 |-> 0] \o name)

\* pitm: version 0 holds a 16-bit item id, version 1 a 32-bit one.
MkPitm(version, id) ==
  MkBox(TypePitm, <<version, 0, 0, 0>> \o (IF version = 0 THEN MkU16(id) ELSE MkU32(id)))

\* infe of version v: item id, protection index 0, item type, empty name.
MkInfe(v, e) ==
  MkBox(TypeInfe, <<v, 0, 0, 0>> \o MkU16(e.id) \o MkU16(0) \o e.type \o <<0>>)

\* A box of a type the parsers map does not know.
TypeFree == <<102, 114, 101, 101>>

MkFree == MkBox(TypeFree, <<7>>)

\* iinf; with stray set, a box of unknown type stands between its infe children.
MkIinf(v, infes, stray) ==
  MkBox(TypeIinf, <<0, 0, 0, 0>> \o MkU16(Len(infes))
                  \o (IF stray THEN MkFree ELSE <<>>)
                  \o Concat([i \in 1..Len(infes) |-> MkInfe(v, infes[i])]))

\* The low w bytes of a uint64: a field of w bytes (none when w is 0).
MkUintN(w, v) == SubSeq(v, 9 - w, 8)

\* iloc version 1, no index; sizes is <<offset size, length size, base offset
\* size>>, the byte widths the nibble header declares and the fields are written at.
MkIlocItem(sizes, l) ==
  MkU16(l.id) \o MkU16(l.method) \o MkU16(0) \o MkUintN(sizes[3], l.base)
  \o MkU16(Len(l.extents))
  \o Concat([i \in 1..Len(l.extents) |->
               MkUintN(sizes[1], l.extents[i].off) \o MkUintN(sizes[2], l.extents[i].len)])

MkIloc(sizes, locs) ==
  MkBox(TypeIloc, <<1, 0, 0, 0>> \o <<sizes[1] * 16 + sizes[2], sizes[3] * 16>>
                  \o MkU16(Len(locs))
                  \o Concat([i \in 1..Len(locs) |-> MkIlocItem(sizes, locs[i])]))

MkIdat(bytes) == MkBox(TypeIdat, bytes)

\* iref version 0: one entry box per reference, its type the box type.
\* An entry of such an iref of version 0: the from-item id, the reference count (the
\* number of to-item ids unless r says otherwise) and the to-item ids.
MkIrefEntry(r) ==
  MkBox(r.type, MkU16(r.from)
                \o MkU16(IF "count" \in DOMAIN r THEN r.count ELSE Len(r.to))
                \o Concat([i \in 1..Len(r.to) |-> MkU16(r.to[i])]))

MkIref(refs) ==
  MkBox(TypeIref, <<0, 0, 0, 0>> \o Concat([i \in 1..Len(refs) |-> MkIrefEntry(refs[i])]))

MkIspe(w, h) == MkBox(TypeIspe, <<0, 0, 0, 0>> \o MkU32(w) \o MkU32(h))

\* ipma of version 0, flags 0: per entry the item id, the number of associations
\* and one byte (essential bit, 7-bit index) for each.
MkIpma(entries) ==
  MkBox(TypeIpma, <<0, 0, 0, 0>> \o MkU32(Len(entries))
                  \o Concat([i \in 1..Len(entries) |->
                               MkU16(entries[i].id) \o <<Len(entries[i].idx)>>
                               \o entries[i].idx]))

\* iprp: an ipco holding the boxes props, then one ipma for each element of
\* ipmas; with stray set, a box of unknown type follows them.
MkIprp(props, ipmas, stray) ==
  MkBox(TypeIprp,
    MkBox(TypeIpco, Concat(props))
    \o Concat([i \in 1..Len(ipmas) |-> MkIpma(ipmas[i])])
    \o (IF stray THEN MkFree ELSE <<>>))

MkMeta(children) == MkBox(TypeMeta, <<0, 0, 0, 0>> \o children)

TailBytes == <<73, 73, 42, 0, 8, 9>>

\* The children of the meta box of the source described by d; d.stray names the
\* container ("meta", "iinf", "iprp") that holds a box of unknown type, if any.
MkChildren(d) ==
  (IF d.hdlr THEN MkHdlr(d.hdlrName) ELSE <<>>)
  \o (IF d.stray = "meta" THEN MkFree ELSE <<>>)
  \o (IF d.pitm = "none" THEN <<>>
      ELSE IF d.pitm = "v0" THEN MkPitm(0, d.pitmID) ELSE MkPitm(1, d.pitmID))
  \o (IF d.iinf THEN MkIinf(d.infeVersion, d.infes, d.stray = "iinf") ELSE <<>>)
  \o (IF d.iprp THEN MkIprp(d.props, d.ipmas, d.stray = "iprp") ELSE <<>>)
  \o (IF d.iloc THEN MkIloc(d.ilocSizes, d.locs) ELSE <<>>)
  \o d.idat
  \o (IF d.iref THEN MkIref(d.refs) ELSE <<>>)

\* The source described by d.
MkFile(d) == MkFtyp \o MkMeta(MkChildren(d)) \o TailBytes

U64Max == [i \in 1..8 |-> 255]

U64SignBit == <<128, 0, 0, 0, 0, 0, 0, 0>>

StrHvc1 == <<104, 118, 99, 49>>

StrGrid == <<103, 114, 105, 100>>

TypeThmb == <<116, 104, 109, 98>>

StrAv01 == <<97, 118, 48, 49>>

TypeDimg == <<100, 105, 109, 103>>

IdatBytes == <<0, 0, 0, 0, 77, 77, 0, 42, 5>>

Extent(off, len) == [off |-> off, len |-> len]

\* The properties of the well-formed source: ispe (2 x 3), irot (1) and a box
\* of unknown type.
BaseProps == <<MkIspe(2, 3), MkBox(TypeIrot, <<1>>), MkFree>>

\* A well-formed source: hdlr, pitm (item 2), iinf (Exif item 1, hvc1 item 2),
\* iprp (one ipma associating item 2), iloc, idat and iref.
BaseDesc ==
  [hdlr |-> TRUE, hdlrName |-> <<0>>,
   pitm |-> "v0", pitmID |-> 2,
   iinf |-> TRUE, infeVersion |-> 2,
   infes |-> <<[id |-> 1, type |-> StrExif], [id |-> 2, type |-> StrHvc1]>>,
   stray |-> "none",
   iprp |-> TRUE, props |-> BaseProps,
   ipmas |-> << <<[id |-> 2, idx |-> <<1, 130, 0, 3, 9>>]>> >>,
   iloc |-> TRUE, ilocSizes |-> <<8, 8, 8>>,
   locs |-> <<[id |-> 1, method |-> 0, base |-> U64Of(0),
               extents |-> <<Extent(U64Of(2), U64Of(6))>>],
              [id |-> 2, method |-> 1, base |-> U64Of(0),
               extents |-> <<Extent(U64Of(4), U64Of(5))>>]>>,
   idat |-> MkIdat(IdatBytes),
   iref |-> TRUE, refs |-> <<[type |-> TypeDimg, from |-> 2, to |-> <<1>>]>>]

ExtentOffsets == {U64Of(0), U64Of(2), U64Of(5), U64Max, U64SignBit}

ExtentLengths ==
  {U64Of(0), U64Of(3), U64Of(4), U64Of(6), U64Of(maxSize), U64Of(maxSize + 1), U64Max}

BaseOffsets == {U64Of(0), U64Of(3)}

\* The Exif item's id, construction method, base offset and single extent vary,
\* with and without an idat box.
ExtentDescs ==
  { [BaseDesc EXCEPT
       !.infes = <<[id |-> x, type |-> StrExif], [id |-> 2, type |-> StrHvc1]>>,
       !.locs = <<[id |-> x, method |-> m, base |-> b, extents |-> <<Extent(o, l)>>],
                  [id |-> 2, method |-> 1, base |-> U64Of(0),
                   extents |-> <<Extent(U64Of(4), U64Of(5))>>]>>,
       !.idat = IF i THEN MkIdat(IdatBytes) ELSE <<>>]
    : x \in {0, 1}, m \in {0, 1}, b \in BaseOffsets, o \in ExtentOffsets,
      l \in ExtentLengths, i \in BOOLEAN }

\* The pitm box (absent, version 0, version 1) and the presence of iinf, iloc,
\* iprp and iref vary; the Exif item has no, one or two extents or sits twice
\* in iinf.
StructureDescs ==
  { [BaseDesc EXCEPT !.pitm = p[1], !.pitmID = p[2], !.iinf = s[1], !.iloc = s[2],
                     !.iprp = s[3], !.iref = s[3]]
    : p \in {<<"none", 0>>, <<"v0", 1>>, <<"v0", 3>>, <<"v1", 1>>, <<"v1", 2>>, <<"v1", 65538>>},
      s \in {<<TRUE, TRUE, TRUE>>, <<FALSE, TRUE, TRUE>>, <<TRUE, FALSE, FALSE>>} }
  \cup
  { [BaseDesc EXCEPT !.locs[1].extents = e, !.infes = n]
    : e \in {<<>>, <<Extent(U64Of(0), U64Of(4)), Extent(U64Of(4), U64Of(4))>>},
      n \in {<<[id |-> 1, type |-> StrExif], [id |-> 2, type |-> StrHvc1]>>,
             <<[id |-> 2, type |-> StrHvc1], [id |-> 1, type |-> StrHvc1],
               [id |-> 1, type |-> StrExif]>>,
             <<[id |-> 2, type |-> StrHvc1]>>} }

\* Sources whose metadata does not parse: an infe of version 0 or 1, a hdlr name
\* without its NUL, an idat body shorter than a FullBox header.
MalformedDescs ==
  { [BaseDesc EXCEPT !.infeVersion = v] : v \in {0, 1} }
  \cup { [BaseDesc EXCEPT !.hdlrName = <<65>>], [BaseDesc EXCEPT !.idat = MkIdat(<<1, 2, 3>>)] }

\* Sources whose iref entry declares as many to-item ids as it holds, or more.
IrefDescs ==
  { [BaseDesc EXCEPT !.refs = <<[type |-> TypeDimg, from |-> 2, to |-> t[1], count |-> t[2]]>>]
    : t \in { <<<<1>>, 1>>, <<<<1>>, 2>>, <<<<>>, 1>>, <<<<1, 2>>, 3>> } }

MaxCut == 3

\* The well-formed source cut short by 1..MaxCut pieces of 29 bytes (the cuts fall
\* in iref, in idat and in iloc), and the empty source.
TruncatedSources ==
  { Take(MkFile(BaseDesc), Len(MkFile(BaseDesc)) - k * 29) : k \in 1..MaxCut } \cup {<<>>}

\* Item 2's properties come from several ipma boxes, or from several entries
\* of one: a first ipma without an entry for item 2, or with only ignored
\* indices (0, and 9 beyond the 3 properties), before the one that contributes.
PropertyDescs ==
  { [BaseDesc EXCEPT !.ipmas = a] :
      a \in { << <<[id |-> 2, idx |-> <<0, 9>>]>>, <<[id |-> 2, idx |-> <<2, 1>>]>> >>,
              << <<[id |-> 1, idx |-> <<1>>]>>, <<[id |-> 2, idx |-> <<129>>]>> >>,
              << <<[id |-> 2, idx |-> <<1>>]>>, <<[id |-> 2, idx |-> <<2>>]>> >>,
              << <<[id |-> 2, idx |-> <<3>>], [id |-> 1, idx |-> <<2>>],
                   [id |-> 2, idx |-> <<0, 1>>]>> >>,
              << <<>>, <<[id |-> 2, idx |-> <<>>]>>, <<[id |-> 2, idx |-> <<3, 3>>]>>,
                 <<[id |-> 2, idx |-> <<1>>]>> >>,
              << <<[id |-> 2, idx |-> <<0>>]>> >> } }

\* The well-formed source with a box of unknown type among the children of
\* meta, of iinf or of iprp.
StrayDescs == { [BaseDesc EXCEPT !.stray = c] : c \in {"meta", "iinf", "iprp"} }

\* The byte widths <<offset, length, base offset>> of the iloc nibble header.
IlocSizes ==
  { <<4, 4, 4>>, <<4, 4, 0>>, <<0, 4, 8>>, <<8, 4, 0>>, <<2, 4, 4>>, <<4, 1, 0>>,
    <<3, 4, 4>>, <<4, 5, 0>>, <<4, 4, 2>>, <<4, 4, 1>> }

IlocSizeDescs == { [BaseDesc EXCEPT !.ilocSizes = z] : z \in IlocSizes }

\* The well-formed source cut short inside the meta box: the trailing bytes, the
\* iref child and 0..MaxCut bytes of the idat child are missing, so that meta
\* (and, from 1 byte on, idat) declares more bytes than are left.
ShortBodySources ==
  { Take(MkFile(BaseDesc),
         Len(MkFile(BaseDesc)) - Len(TailBytes) - Len(MkIref(BaseDesc.refs)) - k)
    : k \in 0..MaxCut }

\* A header that declares a body of n bytes with a 32-bit and with a 64-bit size.
Header32(n) == [size |-> MkU32(8 + n), large |-> <<>>]

Header64(n) == [size |-> <<0, 0, 0, 1>>, large |-> U64Of(16 + n)]

\* Headers for a body of n bytes: the 64-bit form, and sizes that do not cover
\* the header (2 and 7; largesize 0 and 15) or do not fit an int64.
HeadersFor(n) ==
  { Header64(n), [size |-> MkU32(2), large |-> <<>>], [size |-> MkU32(7), large |-> <<>>],
    [size |-> <<0, 0, 0, 1>>, large |-> U64Of(0)],
    [size |-> <<0, 0, 0, 1>>, large |-> U64Of(15)],
    [size |-> <<0, 0, 0, 1>>, large |-> U64SignBit],
    [size |-> <<0, 0, 0, 1>>, large |-> U64Max] }

\* The well-formed source with another header on its ftyp box, on its meta box
\* or on the hdlr child of meta.
HeaderSources ==
  { MkBoxWith(h, TypeFtyp, FtypBody) \o MkMeta(MkChildren(BaseDesc)) \o TailBytes
    : h \in HeadersFor(Len(FtypBody)) }
  \cup
  { MkFtyp \o MkBoxWith(h, TypeMeta, <<0, 0, 0, 0>> \o MkChildren(BaseDesc)) \o TailBytes
    : h \in HeadersFor(4 + Len(MkChildren(BaseDesc))) }
  \cup
  { MkFtyp
    \o MkMeta(MkBoxWith(h, TypeHdlr, Drop(MkHdlr(<<0>>), 8))
              \o MkChildren([BaseDesc EXCEPT !.hdlr = FALSE]))
    \o TailBytes
    : h \in {Header64(Len(MkHdlr(<<0>>)) - 8), [size |-> MkU32(5), large |-> <<>>]} }

Sources ==
  { MkFile(d) : d \in ExtentDescs \cup StructureDescs \cup MalformedDescs
                       \cup PropertyDescs \cup StrayDescs \cup IlocSizeDescs
                       \cup IrefDescs }
  \cup TruncatedSources \cup ShortBodySources \cup HeaderSources

\* hvcC: 22 bytes of configuration, the number of NAL arrays and, for each array,
\* its type byte, its number of units and each unit as its declared 16-bit size
\* followed by its bytes.
MkHvcC(arrays) ==
  MkBox(TypeHvcC,
    <<1>> \o [i \in 1..21 |-> 0] \o <<Len(arrays)>>
    \o Concat([a \in 1..Len(arrays) |->
                 <<arrays[a].type>> \o MkU16(Len(arrays[a].units))
                 \o Concat([u \in 1..Len(arrays[a].units) |->
                              MkU16(arrays[a].units[u].size) \o arrays[a].units[u].bytes])]))

NalUnit(bytes) == [size |-> Len(bytes), bytes |-> bytes]

\* The NAL arrays of the hvcC boxes: none, one unit, units of size 0 between and
\* around others, only units of size 0, and a unit that declares more bytes than
\* the box holds.
HvcArrays ==
  { <<>>,
    <<[type |-> 32, units |-> <<NalUnit(<<1, 2>>)>>]>>,
    <<[type |-> 32, units |-> <<NalUnit(<<>>), NalUnit(<<9>>), NalUnit(<<>>)>>],
      [type |-> 33, units |-> <<NalUnit(<<3, 4, 5>>)>>]>>,
    <<[type |-> 32, units |-> <<NalUnit(<<>>), NalUnit(<<>>)>>]>>,
    <<[type |-> 32, units |-> <<NalUnit(<<>>)>>],
      [type |-> 33, units |-> <<NalUnit(<<6>>), NalUnit(<<7, 8>>)>>],
      [type |-> 34, units |-> <<>>]>>,
    <<[type |-> 32, units |-> <<NalUnit(<<1>>), [size |-> 5, bytes |-> <<1, 2>>]>>]>> }

\* The grid record of an item: version, flags 0, rows - 1, columns - 1 and the
\* 16-bit output width and height.
GridRecord(rows, columns) == <<0, 0, rows - 1, columns - 1, 0, 4, 0, 6>>

MaxGridSide == 2

\* The tile lists of the dimg reference: short, exact and long ones, a repeated
\* tile, a tile that is no item (9) and a tile that is the grid itself (1).
TileLists ==
  { <<>>, <<2>>, <<2, 3>>, <<3, 2>>, <<2, 3, 4>>, <<2, 3, 4, 5>>, <<5, 4, 3, 2>>,
    <<2, 2, 2, 2>>, <<2, 9>>, <<1, 2>>, <<2, 3, 4, 5, 2>> }

\* One NAL unit of one byte b as item data holds it: its length, then the unit.
FramedUnit(b) == <<0, 0, 0, 1, b>>

\* A grid image: item 1 is the grid (its record opens the idat data), items 2 to 5
\* are tiles of the given item types whose data follow the record in the idat;
\* the primary item and the tiles have the ispe property, the tiles the hvcC
\* property too.
GridDescWith(record, refs, types, datas) ==
  [hdlr |-> TRUE, hdlrName |-> <<0>>,
   pitm |-> "v0", pitmID |-> 1,
   iinf |-> TRUE, infeVersion |-> 2,
   infes |-> <<[id |-> 1, type |-> StrGrid]>>
             \o [i \in 1..4 |-> [id |-> i + 1, type |-> types[i]]],
   stray |-> "none",
   iprp |-> TRUE,
   props |-> <<MkIspe(2, 3), MkHvcC(<<[type |-> 32, units |-> <<NalUnit(<<1, 2>>)>>]>>)>>,
   ipmas |-> << <<[id |-> 1, idx |-> <<1>>]>>
                \o [i \in 1..4 |-> [id |-> i + 1, idx |-> <<1, 2>>]] >>,
   iloc |-> TRUE, ilocSizes |-> <<8, 8, 8>>,
   locs |-> <<[id |-> 1, method |-> 1, base |-> U64Of(0),
               extents |-> <<Extent(U64Of(0), U64Of(Len(record)))>>]>>
            \o [i \in 1..4 |->
                  [id |-> i + 1, method |-> 1, base |-> U64Of(0),
                   extents |-> <<Extent(U64Of(Len(record)
                                              + Len(Concat(SubSeq(datas, 1, i - 1)))),
                                        U64Of(Len(datas[i])))>>]],
   idat |-> MkIdat(record \o Concat(datas)),
   iref |-> refs # <<>>, refs |-> refs]

\* The grid image whose tiles are hvc1 items of one NAL unit each.
GridDescOf(record, refs) ==
  GridDescWith(record, refs, [i \in 1..4 |-> StrHvc1], [i \in 1..4 |-> FramedUnit(i)])

GridDesc(rows, columns, refs) == GridDescOf(GridRecord(rows, columns), refs)

GridDescs ==
  { GridDesc(r, c, <<[type |-> TypeDimg, from |-> 1, to |-> t]>>) :
      r \in 1..MaxGridSide, c \in 1..MaxGridSide, t \in TileLists }
  \cup { GridDesc(1, 256, <<[type |-> TypeDimg, from |-> 1, to |-> <<2, 3>>]>>),
         GridDesc(256, 1, <<[type |-> TypeDimg, from |-> 1, to |-> <<2>>]>>),
         GridDesc(1, 2, <<>>),
         GridDesc(1, 2, <<[type |-> TypeThmb, from |-> 1, to |-> <<2, 3>>]>>),
         GridDesc(1, 2, <<[type |-> TypeThmb, from |-> 1, to |-> <<4>>],
                          [type |-> TypeDimg, from |-> 1, to |-> <<3, 2>>],
                          [type |-> TypeDimg, from |-> 1, to |-> <<5>>]>>),
         GridDescOf(<<0, 0, 0, 0, 0>>, <<[type |-> TypeDimg, from |-> 1, to |-> <<2>>]>>),
         GridDescOf(<<0, 1, 0, 0, 0, 4, 0, 6>>,
                    <<[type |-> TypeDimg, from |-> 1, to |-> <<2>>]>>),
         GridDescOf(<<0, 1, 0, 1, 0, 0, 0, 4, 0, 0, 0, 6>>,
                    <<[type |-> TypeDimg, from |-> 1, to |-> <<4, 5>>]>>),
         [GridDesc(2, 1, <<[type |-> TypeDimg, from |-> 1, to |-> <<2, 3>>]>>)
            EXCEPT !.ipmas = << <<[id |-> 1, idx |-> <<1>>], [id |-> 2, idx |-> <<1, 2>>],
                                  [id |-> 3, idx |-> <<1>>]>> >>] }

\* A single image: the primary item 2 is an hvc1 item with the ispe property and an
\* hvcC property of the NAL arrays a; its data d are in the idat.
HevcDescWith(a, d) ==
  [BaseDesc EXCEPT !.props = <<MkIspe(2, 3), MkHvcC(a)>>,
                   !.ipmas = << <<[id |-> 2, idx |-> <<1, 2>>]>> >>,
                   !.idat = MkIdat(<<0, 0, 0, 0>> \o d),
                   !.locs[2].extents = <<Extent(U64Of(4), U64Of(Len(d)))>>]

HevcDesc(a) == HevcDescWith(a, FramedUnit(9))

\* Item data of the single image: empty, one unit, two units, a unit of size 0
\* between others, a unit of size 0 at the end, a size beyond the data, and a
\* length prefix cut short.
ItemDatas ==
  { <<>>, FramedUnit(9), FramedUnit(8) \o FramedUnit(9),
    FramedUnit(8) \o <<0, 0, 0, 0>> \o FramedUnit(9),
    FramedUnit(8) \o <<0, 0, 0, 0>>,
    <<0, 0, 0, 3, 9>>,
    FramedUnit(8) \o <<0, 0>> }

\* The sources the decoders are driven over: single hvc1 images over the hvcC
\* boxes and the item data, a single av01 image, and grids of 1 to 4 tiles that
\* are hvc1 items, av01 items or both, or lack the hvcC property.
DecoderDescs ==
  { HevcDescWith(a, FramedUnit(9)) : a \in HvcArrays }
  \cup { HevcDescWith(<<[type |-> 32, units |-> <<NalUnit(<<1, 2>>)>>]>>, d) : d \in ItemDatas }
  \cup { [HevcDesc(<<>>) EXCEPT !.infes[2].type = StrAv01] }
  \cup { GridDesc(g[1], g[2], <<[type |-> TypeDimg, from |-> 1, to |-> g[3]]>>) :
           g \in { <<1, 1, <<2>> >>, <<1, 2, <<2, 3>> >>, <<2, 1, <<3, 2>> >>,
                   <<2, 2, <<2, 3, 4, 5>> >>, <<2, 2, <<2, 2, 3, 3>> >>,
                   <<2, 2, <<2, 3, 9, 4>> >> } }
  \cup { GridDescWith(GridRecord(2, 2), <<[type |-> TypeDimg, from |-> 1, to |-> <<2, 3, 4, 5>>]>>,
                      t, [i \in 1..4 |-> FramedUnit(i)]) :
           t \in { <<StrAv01, StrAv01, StrAv01, StrAv01>>, <<StrHvc1, StrAv01, StrHvc1, StrAv01>>,
                   <<StrAv01, StrHvc1, StrExif, StrHvc1>> } }
  \cup { GridDescWith(GridRecord(1, 2), <<[type |-> TypeDimg, from |-> 1, to |-> <<2, 3>>]>>,
                      [i \in 1..4 |-> StrHvc1],
                      <<FramedUnit(1), FramedUnit(2) \o <<0, 0, 0, 0>>, <<>>, <<>> >>),
          [GridDesc(2, 1, <<[type |-> TypeDimg, from |-> 1, to |-> <<2, 3>>]>>)
             EXCEPT !.ipmas = << <<[id |-> 1, idx |-> <<1>>], [id |-> 2, idx |-> <<1, 2>>],
                                   [id |-> 3, idx |-> <<1>>]>> >>] }

DecoderSources == { MkFile(d) : d \in DecoderDescs }

ImageSources ==
  { MkFile(d) : d \in GridDescs \cup { HevcDesc(a) : a \in HvcArrays }
                       \cup {BaseDesc, [BaseDesc EXCEPT !.pitmID = 1]} }

(***************************************************************************)
(* The accessors of Item and of the hvcC box, and package goheif: Decode.   *)
(***************************************************************************)
RECURSIVE FirstOfKind(_, _, _)
\* The first element of props whose Go type is kind, or NoValue: the loop of
\* SpatialExtents and HevcConfig over it.Properties.
FirstOfKind(props, i, kind) ==
  IF i > Len(props) THEN NoValue
  ELSE IF props[i].kind = kind THEN props[i]
  ELSE FirstOfKind(props, i + 1, kind)

\* SpatialExtents: [ok, p], p the ispe property (its width and height).
SpatialExtents(it) ==
  Let(FirstOfKind(it.Properties, 1, "ImageSpatialExtentsProperty"), LAMBDA p :
    [ok |-> p # NoValue, p |-> p])

\* HevcConfig: [ok, b], b the hvcC box.
HevcConfig(it) ==
  Let(FirstOfKind(it.Properties, 1, "ItemHevcConfigBox"), LAMBDA b :
    [ok |-> b # NoValue, b |-> b])

RECURSIVE Reference(_, _, _)
\* The first reference of the item whose box type is name, or NoValue.
Reference(refs, i, name) ==
  IF i > Len(refs) THEN NoValue
  ELSE IF refs[i].boxType = name THEN refs[i]
  ELSE Reference(refs, i + 1, name)

\* A length prefix of 2 bytes where the code writes 4.
UnitWithShortLength(unit) == <<(Len(unit) \div 256) % 256, Len(unit) % 256>> \o unit

\* One NAL unit as AsHeader writes it: the 4 bytes of its length, then the unit.
UnitWithLength(unit) ==
  <<(Len(unit) \div 16777216) % 256, (Len(unit) \div 65536) % 256,
    (Len(unit) \div 256) % 256, Len(unit) % 256>> \o unit

\* AsHeader: over the NAL arrays and, in each, over its units.
AsHeader(ib) ==
  Concat([a \in 1..Len(ib.nalArray) |->
            Concat([u \in 1..Len(ib.nalArray[a].units) |->
                      UnitWithLength(ib.nalArray[a].units[u])])])

\* The grid record with rows and columns taken as they are, without the + 1.
newGridBoxZeroBased(d) ==
  IF Len(d) < 8 THEN [err |-> "invalid data", grid |-> NoValue]
  ELSE IF d[2] % 2 = 1 /\ Len(d) < 12 THEN [err |-> "invalid data", grid |-> NoValue]
  ELSE [err |-> Nil,
        grid |-> [rows |-> d[3], columns |-> d[4],
                  width |-> IF d[2] % 2 = 1 THEN SubSeq(d, 5, 8) ELSE SubSeq(d, 5, 6),
                  height |-> IF d[2] % 2 = 1 THEN SubSeq(d, 9, 12) ELSE SubSeq(d, 7, 8)]]

\* newGridBox: [err, grid].  d[2] is the flags byte, d[3] and d[4] are rows - 1
\* and columns - 1 (Go's data[1], data[2], data[3]); width and height are kept as
\* the big-endian bytes they are read from.
newGridBox(d) ==
  IF Len(d) < 8 THEN [err |-> "invalid data", grid |-> NoValue]
  ELSE IF d[2] % 2 = 1 /\ Len(d) < 12 THEN [err |-> "invalid data", grid |-> NoValue]
  ELSE [err |-> Nil,
        grid |-> [rows |-> d[3] + 1, columns |-> d[4] + 1,
                  width |-> IF d[2] % 2 = 1 THEN SubSeq(d, 5, 8) ELSE SubSeq(d, 5, 6),
                  height |-> IF d[2] % 2 = 1 THEN SubSeq(d, 9, 12) ELSE SubSeq(d, 7, 8)]]

(***************************************************************************)
(* libde265.Decoder.  The C library is a black box: which pictures it       *)
(* yields, and of what size, is an input (the oracle o of Decode).  A       *)
(* decoder d is [ctx, hasImage, safeEncode, pics, frees]: pics has, for     *)
(* every picture de265_get_next_picture handed out, the number of times it  *)
(* was released; frees counts the de265_free_decoder calls.                 *)
(***************************************************************************)
NewDecoder(safe) ==
  [ctx |-> "live", hasImage |-> FALSE, safeEncode |-> safe, pics |-> <<>>, frees |-> 0]

\* A Reset that leaves the picture of the last DecodeImage unreleased.
ResetKeepsPicture(d) == d

\* Reset: de265_release_next_picture on the picture handed out last, if hasImage.
Reset(d) ==
  IF d.ctx # "none" /\ d.hasImage
    THEN [d EXCEPT !.hasImage = FALSE, !.pics[Len(d.pics)] = @ + 1]
  ELSE d

\* Free: Reset, then de265_free_decoder.
Free(d) == [Reset(d) EXCEPT !.ctx = "freed", !.frees = @ + 1]

\* The NAL size read as little-endian.
nalSizeLittleEndian(data, pos) ==
  ((data[pos + 4] * 256 + data[pos + 3]) * 256 + data[pos + 2]) * 256 + data[pos + 1]

\* The big-endian uint32 at data[pos..pos+3] (Go's indices; pos counts from 0).
nalSize(data, pos) == BE32(SubSeq(data, pos + 1, pos + 4))

RECURSIVE PushLoop(_, _, _)
\* The loop of Push from position pos on, nals being the units handed to
\* de265_push_NAL so far: [res, err, nals, pos].  &data[pos] is an index
\* expression: with pos = len(data) it panics.
PushLoop(data, pos, nals) ==
  IF pos >= Len(data) THEN [res |-> "value", err |-> Nil, nals |-> nals, pos |-> pos]
  ELSE IF pos + 4 > Len(data)
    THEN [res |-> "error", err |-> "Invalid NAL data", nals |-> nals, pos |-> pos]
  ELSE IF pos + 4 + nalSize(data, pos) > Len(data)
    THEN [res |-> "error", err |-> "Invalid NAL size", nals |-> nals, pos |-> pos + 4]
  ELSE IF pos + 4 >= Len(data)
    THEN [res |-> "panic", err |-> Nil, nals |-> nals, pos |-> pos + 4]
  ELSE PushLoop(data, pos + 4 + nalSize(data, pos),
                Append(nals, SubSeq(data, pos + 5, pos + 4 + nalSize(data, pos))))

Push(data) == PushLoop(data, 0, <<>>)

\* DecodeImage on decoder d: [res, err, d, img].  outcome is what the library
\* does with what it was given: "picture" and its size w x h, or "decode error",
\* or "image too big" (a picture that fails the sanity check).  The planes of
\* the image are copies (C.GoBytes) when safeEncode, else slices of the picture.
DecodeImage(d, data, outcome, w, h) ==
  Let(IF Len(data) > 0 THEN Push(data) ELSE [res |-> "value", err |-> Nil], LAMBDA p :
    IF p.res # "value" THEN [res |-> p.res, err |-> p.err, d |-> d, img |-> NoValue]
    ELSE IF outcome = "decode error"
      THEN [res |-> "error", err |-> "decode error", d |-> d, img |-> NoValue]
    ELSE Let([d EXCEPT !.hasImage = TRUE, !.pics = Append(@, 0)], LAMBDA got :
      IF outcome = "image too big"
        THEN [res |-> "error", err |-> "image too big", d |-> got, img |-> NoValue]
      ELSE [res |-> "value", err |-> Nil, d |-> got,
            img |-> [kind |-> "YCbCr", w |-> w, h |-> h, bufW |-> w, bufH |-> h,
                     planes |-> IF d.safeEncode THEN "copy" ELSE "picture",
                     pic |-> Len(got.pics)]]))

(***************************************************************************)
(* goheif.  st is what a run of Decode has done so far: the oracle o, the   *)
(* tiles looked up (consumed), the calls made on the decoders in order      *)
(* (calls), the decoders (hevc, av1; NoValue until made), the deferred      *)
(* Frees, the number of DecodeImage calls (n) and the stitched image (out). *)
(***************************************************************************)
\* One call on a decoder, as the history keeps it.
DecCall(dec, call, id, bytes, hasImage) ==
  [dec |-> dec, call |-> call, item |-> id, bytes |-> bytes, hasImage |-> hasImage]

\* What the library does on the DecodeImage call that is the n-th of the run.
OutcomeOf(o, n) == IF o.fails = n THEN o.kind ELSE "picture"

\* decodeHevcItem without the Reset.
decodeHevcItemNoReset(st, hf, item) ==
  IF item.Info.ItemType # StrHvc1
    THEN [res |-> "error", err |-> "unsupported item type", st |-> st, img |-> NoValue]
  ELSE IF ~HevcConfig(item).ok
    THEN [res |-> "error", err |-> "no hvcC", st |-> st, img |-> NoValue]
  ELSE Let(GetItemData(hf, item), LAMBDA gd :
    IF gd.res # "value" THEN [res |-> gd.res, err |-> gd.err, st |-> st, img |-> NoValue]
    ELSE
      Let(AsHeader(HevcConfig(item).b), LAMBDA hdr :
      Let(st.hevc, LAMBDA d1 :
      Let(Push(hdr), LAMBDA p :
      Let(st.calls \o <<DecCall("hevc", "Push", item.ID, hdr, d1.hasImage)>>,
          LAMBDA calls :
        IF p.res = "panic"
          THEN [res |-> "panic", err |-> Nil, img |-> NoValue,
                st |-> [st EXCEPT !.hevc = d1, !.calls = calls]]
        ELSE
          Let(DecodeImage(d1, gd.data.bytes, OutcomeOf(st.o, st.n + 1),
                          st.o.pics[st.n + 1][1], st.o.pics[st.n + 1][2]), LAMBDA r :
            [res |-> r.res, err |-> r.err, img |-> r.img,
             st |-> [st EXCEPT
                       !.hevc = r.d, !.n = @ + 1,
                       !.calls = calls \o <<DecCall("hevc", "DecodeImage", item.ID,
                                                    gd.data.bytes, d1.hasImage)>>]]))))))

\* decodeHevcItem: [res, err, st, img].  The error of Push(hdr) is dropped.
decodeHevcItem(st, hf, item) ==
  IF item.Info.ItemType # StrHvc1
    THEN [res |-> "error", err |-> "unsupported item type", st |-> st, img |-> NoValue]
  ELSE IF ~HevcConfig(item).ok
    THEN [res |-> "error", err |-> "no hvcC", st |-> st, img |-> NoValue]
  ELSE Let(GetItemData(hf, item), LAMBDA gd :
    IF gd.res # "value" THEN [res |-> gd.res, err |-> gd.err, st |-> st, img |-> NoValue]
    ELSE
      Let(AsHeader(HevcConfig(item).b), LAMBDA hdr :
      Let(Reset(st.hevc), LAMBDA d1 :
      Let(Push(hdr), LAMBDA p :
      Let(st.calls \o <<DecCall("hevc", "Reset", item.ID, <<>>, st.hevc.hasImage),
                        DecCall("hevc", "Push", item.ID, hdr, d1.hasImage)>>,
          LAMBDA calls :
        IF p.res = "panic"
          THEN [res |-> "panic", err |-> Nil, img |-> NoValue,
                st |-> [st EXCEPT !.hevc = d1, !.calls = calls]]
        ELSE
          Let(DecodeImage(d1, gd.data.bytes, OutcomeOf(st.o, st.n + 1),
                          st.o.pics[st.n + 1][1], st.o.pics[st.n + 1][2]), LAMBDA r :
            [res |-> r.res, err |-> r.err, img |-> r.img,
             st |-> [st EXCEPT
                       !.hevc = r.d, !.n = @ + 1,
                       !.calls = calls \o <<DecCall("hevc", "DecodeImage", item.ID,
                                                    gd.data.bytes, d1.hasImage)>>]]))))))

\* decodeAv1Item: [res, err, st, img].  The dav1d decoder is known by the calls it
\* gets only; what its image refers to is not.
decodeAv1Item(st, hf, item) ==
  IF item.Info.ItemType # StrAv01
    THEN [res |-> "error", err |-> "unsupported item type", st |-> st, img |-> NoValue]
  ELSE Let(GetItemData(hf, item), LAMBDA gd :
    IF gd.res # "value" THEN [res |-> gd.res, err |-> gd.err, st |-> st, img |-> NoValue]
    ELSE
      Let([st EXCEPT
             !.n = @ + 1,
             !.calls = @ \o <<DecCall("av1", "Reset", item.ID, <<>>, FALSE),
                              DecCall("av1", "DecodeImage", item.ID, gd.data.bytes, FALSE)>>],
          LAMBDA st1 :
        IF OutcomeOf(st.o, st.n + 1) # "picture"
          THEN [res |-> "error", err |-> OutcomeOf(st.o, st.n + 1), st |-> st1,
                img |-> NoValue]
        ELSE [res |-> "value", err |-> Nil, st |-> st1,
              img |-> [kind |-> "YCbCr", w |-> st.o.pics[st.n + 1][1],
                       h |-> st.o.pics[st.n + 1][2], bufW |-> st.o.pics[st.n + 1][1],
                       bufH |-> st.o.pics[st.n + 1][2], planes |-> "av1", pic |-> 0]]))

\* NewDecoder and `defer dec.Free()` for the decoder named which, unless made.
WithDecoder(st, which) ==
  IF which = "hevc" /\ st.hevc = NoValue
    THEN [st EXCEPT !.hevc = NewDecoder(st.o.safe), !.defers = <<"hevc">> \o @,
                    !.calls = Append(@, DecCall("hevc", "NewDecoder", 0, <<>>, FALSE))]
  ELSE IF which = "av1" /\ st.av1 = NoValue
    THEN [st EXCEPT !.av1 = [ctx |-> "live", frees |-> 0], !.defers = <<"av1">> \o @,
                    !.calls = Append(@, DecCall("av1", "NewDecoder", 0, <<>>, FALSE))]
  ELSE st

\* The first tile sets tileWidth and tileHeight and makes out of tileWidth *
\* columns by tileHeight * rows; every tile of these dimensions is copied in.
Stitch(st, grid, img, x, y) ==
  Let(IF st.tileWidth = 0
        THEN [st EXCEPT !.tileWidth = img.w, !.tileHeight = img.h,
                        !.out = [kind |-> "YCbCr", w |-> img.w * grid.columns,
                                 h |-> img.h * grid.rows, bufW |-> img.w * grid.columns,
                                 bufH |-> img.h * grid.rows, planes |-> "go", pic |-> 0]]
      ELSE st, LAMBDA st1 :
    IF st1.tileWidth # img.w \/ st1.tileHeight # img.h
      THEN [res |-> "error", err |-> "inconsistent tile dimensions", st |-> st1]
    ELSE [res |-> "value", err |-> Nil,
          st |-> [st1 EXCEPT !.calls = Append(@, [dec |-> "out", call |-> "copy",
                                                   item |-> 0, bytes |-> <<x, y>>,
                                                   hasImage |-> img.planes = "picture",
                                                   pic |-> img.pic])]])

RECURSIVE TilesLoop(_, _, _, _, _, _, _)
\* The loops over y < grid.rows and x < grid.columns with the running index i into
\* dimg.ToItemIDs: [res, err, st].  st.consumed lists the tiles looked up with
\* ItemByID, each with the place (x, y) it is copied to.
TilesLoop(hf, ids, grid, i, y, x, st) ==
  IF y >= grid.rows THEN [res |-> "value", err |-> Nil, st |-> st]
  ELSE IF x >= grid.columns THEN TilesLoop(hf, ids, grid, i, y + 1, 0, st)
  ELSE
    Let([st EXCEPT !.consumed = Append(@, [id |-> ids[i + 1], x |-> x, y |-> y])],
        LAMBDA seen :
    Let(ItemByID(hf, ids[i + 1]), LAMBDA ib :
      IF ib.err # Nil THEN [res |-> "error", err |-> ib.err, st |-> seen]
      ELSE IF ib.it.Info.ItemType \notin {StrAv01, StrHvc1}
        THEN [res |-> "error", err |-> "unsupported tile item type", st |-> seen]
      ELSE Let(IF ib.it.Info.ItemType = StrAv01
                 THEN decodeAv1Item(WithDecoder(seen, "av1"), ib.f, ib.it)
               ELSE decodeHevcItem(WithDecoder(seen, "hevc"), ib.f, ib.it), LAMBDA d :
        IF d.res # "value" THEN [res |-> d.res, err |-> d.err, st |-> d.st]
        ELSE Let(Stitch(d.st, grid, d.img, x, y), LAMBDA s :
          IF s.res # "value" THEN s
          ELSE TilesLoop(ib.f, ids, grid, i + 1, y, x + 1, s.st)))))

\* What Decode has done before it made a decoder.
NoCalls(o) ==
  [o |-> o, consumed |-> <<>>, calls |-> <<>>, hevc |-> NoValue, av1 |-> NoValue,
   defers |-> <<>>, n |-> 0, tileWidth |-> 0, tileHeight |-> 0, out |-> NoValue]

\* Decode up to its return statement: [res, err, st, img].
DecodeBody(src, o) ==
  Let(PrimaryItem(Open(src)), LAMBDA pi :
    IF pi.err # Nil THEN [res |-> "error", err |-> pi.err, st |-> NoCalls(o), img |-> NoValue]
    ELSE IF ~SpatialExtents(pi.it).ok
      THEN [res |-> "error", err |-> "no dimension", st |-> NoCalls(o), img |-> NoValue]
    ELSE IF pi.it.Info.ItemType = StrAv01
      THEN decodeAv1Item(WithDecoder(NoCalls(o), "av1"), pi.f, pi.it)
    ELSE IF pi.it.Info.ItemType = StrHvc1
      THEN decodeHevcItem(WithDecoder(NoCalls(o), "hevc"), pi.f, pi.it)
    ELSE IF pi.it.Info.ItemType # StrGrid
      THEN [res |-> "error", err |-> "no grid", st |-> NoCalls(o), img |-> NoValue]
    ELSE Let(GetItemData(pi.f, pi.it), LAMBDA gd :
      IF gd.res # "value"
        THEN [res |-> gd.res, err |-> gd.err, st |-> NoCalls(o), img |-> NoValue]
      ELSE Let(newGridBox(gd.data.bytes), LAMBDA g :
        IF g.err # Nil THEN [res |-> "error", err |-> g.err, st |-> NoCalls(o), img |-> NoValue]
        ELSE Let(Reference(pi.it.References, 1, TypeDimg), LAMBDA dimg :
          IF dimg = NoValue
            THEN [res |-> "error", err |-> "no dimg", st |-> NoCalls(o), img |-> NoValue]
          ELSE IF Len(dimg.ToItemIDs) # g.grid.columns * g.grid.rows
            THEN [res |-> "error", err |-> "tiles number not matched", st |-> NoCalls(o),
                  img |-> NoValue]
          ELSE Let(TilesLoop(pi.f, dimg.ToItemIDs, g.grid, 0, 0, 0, NoCalls(o)), LAMBDA t :
            IF t.res # "value" THEN [res |-> t.res, err |-> t.err, st |-> t.st, img |-> NoValue]
            ELSE [res |-> "value", err |-> Nil, st |-> t.st,
                  \* out.Rect = (0,0)-(width,height) of the primary item's ispe
                  img |-> [t.st.out EXCEPT
                             !.w = BE32(SpatialExtents(pi.it).p.ImageWidth),
                             !.h = BE32(SpatialExtents(pi.it).p.ImageHeight)]])))))

RECURSIVE RunDeferred(_, _)
\* The deferred Frees, last deferred first; they run on every return and on a panic.
RunDeferred(st, defers) ==
  IF defers = <<>> THEN st
  ELSE IF defers[1] = "hevc"
    THEN RunDeferred([st EXCEPT !.hevc = Free(@),
                                !.calls = Append(@, DecCall("hevc", "Free", 0, <<>>,
                                                            st.hevc.hasImage))],
                     Tail(defers))
  ELSE RunDeferred([st EXCEPT !.av1 = [ctx |-> "freed", frees |-> @.frees + 1],
                              !.calls = Append(@, DecCall("av1", "Free", 0, <<>>, FALSE))],
                   Tail(defers))

\* Decode over the bytes src: [res, err, consumed, calls, hevc, av1, img].
Decode(src, o) ==
  Let(DecodeBody(src, o), LAMBDA b :
  Let(RunDeferred(b.st, b.st.defers), LAMBDA st :
    [res |-> b.res, err |-> b.err, consumed |-> st.consumed, calls |-> st.calls,
     hevc |-> st.hevc, av1 |-> st.av1, img |-> b.img]))

(***************************************************************************)
(* The state: the File (ra, metaErr, meta) and what its caller holds.      *)
(***************************************************************************)
VARIABLES
  ra,        \* File.ra: the bytes of the source
  metaErr,   \* File.metaErr
  meta,      \* File.meta: NoValue (nil) or the BoxMeta
  ret,       \* the last call: [op, id, res, err]
  item,      \* the Item the last successful PrimaryItem or ItemByID returned
  data,      \* the slice the last successful GetItemData or EXIF returned
  firstErr,  \* history: the error of the first getMeta that failed
  writes,    \* history: the number of writes the caller made into data
  reads,     \* history: how many times getMeta set out to read the source
  twin,      \* a second File opened over the same bytes, and what its caller holds
  consumed,  \* history: the tile item ids the last Decode looked up, in order
  reader,    \* a bmff.Reader over the bytes ra, its last ReadBox and their history
  bufr,      \* a bufReader over the bytes ra, its last primitive and their history
  dec        \* the last Decode's decoders: the calls they got, and its image

vars ==
  <<ra, metaErr, meta, ret, item, data, firstErr, writes, reads, twin, consumed,
    reader, bufr, dec>>

\* What only the actions on a Reader, on a bufReader and Decode change.
lowLevel == <<reader, bufr, dec>>

File == [ra |-> ra, metaErr |-> metaErr, meta |-> meta, reads |-> reads]

NoRet == [op |-> "none", id |-> 0, res |-> "none", err |-> Nil]

MaxItemID == 2

MaxWrites == 1

MaxMetaReads == 3

\* What the caller of a second handle holds: nothing yet.
NoTwin ==
  [metaErr |-> Nil, meta |-> NoValue, reads |-> 0, ret |-> NoRet, item |-> NoValue,
   data |-> NoData]

\* No Reader, no bufReader, no Decode.
NoReader == [op |-> "none"]

NoBufReader == [op |-> "none"]

NoDecode == [op |-> "none"]

\* The File as Open(ra) returns it, no call made yet.
Fresh ==
  /\ metaErr = Open(ra).metaErr
  /\ meta = Open(ra).meta
  /\ reads = Open(ra).reads
  /\ ret = NoRet
  /\ item = NoValue
  /\ data = NoData
  /\ firstErr = Nil
  /\ writes = 0
  /\ twin = NoTwin
  /\ consumed = <<>>

Init ==
  /\ ra \in Sources
  /\ Fresh
  /\ reader = NoReader
  /\ bufr = NoBufReader
  /\ dec = NoDecode

\* A panic ends the program.
Running == ret.res # "panic"

\* What every operation does to the File and to the history of getMeta.  The
\* File has no BoxMeta after the call exactly when the call's getMeta failed, and
\* the operation then returned getMeta's error.
Called(f, err) ==
  /\ f.reads <= MaxMetaReads
  /\ metaErr' = f.metaErr
  /\ meta' = f.meta
  /\ reads' = f.reads
  /\ firstErr' = IF firstErr = Nil /\ f.meta = NoValue THEN err ELSE firstErr
  /\ UNCHANGED <<ra, writes>>

CallEXIF ==
  /\ Running
  /\ \E r \in {EXIF(File)} :
       /\ Called(r.f, r.err)
       /\ ret' = [op |-> "EXIF", id |-> 0, res |-> r.res, err |-> r.err]
       /\ data' = IF r.res = "value" THEN r.data ELSE data
       /\ UNCHANGED <<item, twin, consumed, lowLevel>>

CallPrimaryItem ==
  /\ Running
  /\ \E r \in {PrimaryItem(File)} :
       /\ Called(r.f, r.err)
       /\ ret' = [op |-> "PrimaryItem", id |-> 0,
                  res |-> IF r.err = Nil THEN "value" ELSE "error", err |-> r.err]
       /\ item' = IF r.err = Nil THEN r.it ELSE item
       /\ UNCHANGED <<data, twin, consumed, lowLevel>>

CallItemByID(id) ==
  /\ Running
  /\ \E r \in {ItemByID(File, id)} :
       /\ Called(r.f, r.err)
       /\ ret' = [op |-> "ItemByID", id |-> id,
                  res |-> IF r.err = Nil THEN "value" ELSE "error", err |-> r.err]
       /\ item' = IF r.err = Nil THEN r.it ELSE item
       /\ UNCHANGED <<data, twin, consumed, lowLevel>>

\* GetItemData on an Item obtained from this File.
CallGetItemData ==
  /\ Running
  /\ item # NoValue
  /\ \E r \in {GetItemData(File, item)} :
       /\ ret' = [op |-> "GetItemData", id |-> item.ID, res |-> r.res, err |-> r.err]
       /\ data' = IF r.res = "value" THEN r.data ELSE data
       /\ UNCHANGED <<ra, metaErr, meta, item, firstErr, writes, reads, twin, consumed, lowLevel>>

\* The caller writes a byte into the slice it was handed.  A slice that shares
\* its backing array with the idat data writes through to it.
CallerWrite(i) ==
  /\ Running
  /\ writes < MaxWrites
  /\ i \in 1..Len(data.bytes)
  /\ data' = [data EXCEPT !.bytes[i] = (@ + 1) % 256]
  /\ meta' = IF data.alias THEN [meta EXCEPT !.ItemData.Data[data.off + i] = (@ + 1) % 256]
             ELSE meta
  /\ writes' = writes + 1
  /\ ret' = [op |-> "write", id |-> 0, res |-> "none", err |-> Nil]
  /\ UNCHANGED <<ra, metaErr, item, firstErr, reads, twin, consumed, lowLevel>>

Next ==
  \/ CallEXIF
  \/ CallPrimaryItem
  \/ \E id \in 0..MaxItemID : CallItemByID(id)
  \/ CallGetItemData
  \/ \E i \in 1..Len(data.bytes) : CallerWrite(i)

Spec == Init /\ [][Next]_vars

(***************************************************************************)
(* Decoding: goheif.Decode over the source, and AsHeader on an item's hvcC. *)
(***************************************************************************)
MaxFails == 4

\* The sizes w x h of the pictures the decoders yield, by the number of the
\* DecodeImage call: all alike, or one that differs.
AllOf(w, h) == [k \in 1..(MaxGridSide * MaxGridSide + 1) |-> <<w, h>>]

Pictures ==
  { AllOf(2, 3), AllOf(1, 1), AllOf(1, 2), AllOf(3, 2),
    [AllOf(1, 2) EXCEPT ![2] = <<2, 2>>], [AllOf(1, 2) EXCEPT ![4] = <<1, 1>>] }

\* What Decode does not decide: which DecodeImage call fails (fails; 0: none),
\* how (kind), the pictures' sizes (pics) and the value of SafeEncoding (safe).
Oracle(fails, kind, pics, safe) ==
  [fails |-> fails, kind |-> kind, pics |-> pics, safe |-> safe]

\* SafeEncoding as it is declared, and the library failing in one way.
ImageOracles == { Oracle(fails, "decode error", AllOf(2, 3), TRUE) : fails \in 0..MaxFails }

Oracles ==
  { Oracle(fails, kind, AllOf(2, 3), safe) :
      fails \in 1..MaxFails, kind \in {"decode error", "image too big"}, safe \in BOOLEAN }
  \cup { Oracle(0, "decode error", pics, safe) : pics \in Pictures, safe \in BOOLEAN }

InitImage ==
  /\ ra \in ImageSources
  /\ Fresh
  /\ reader = NoReader
  /\ bufr = NoBufReader
  /\ dec = NoDecode

\* Decode opens its own File over the source.
CallDecode(o) ==
  /\ Running
  /\ \E r \in {Decode(ra, o)} :
       /\ ret' = [op |-> "Decode", id |-> o.fails, res |-> r.res, err |-> r.err]
       /\ consumed' = r.consumed
       /\ dec' = [op |-> "Decode", o |-> o, calls |-> r.calls, hevc |-> r.hevc,
                  av1 |-> r.av1, img |-> r.img]
  /\ UNCHANGED <<ra, metaErr, meta, item, data, firstErr, writes, reads, twin, reader, bufr>>

\* AsHeader on the hvcC property of an Item obtained from this File.
CallAsHeader ==
  /\ Running
  /\ item # NoValue
  /\ HevcConfig(item).ok
  /\ ret' = [op |-> "AsHeader", id |-> item.ID, res |-> "value", err |-> Nil]
  /\ data' = [NoData EXCEPT !.bytes = AsHeader(HevcConfig(item).b)]
  /\ UNCHANGED <<ra, metaErr, meta, item, firstErr, writes, reads, twin, consumed, lowLevel>>

\* dec.Push(bytes) on a decoder at hand.  History: the units handed to
\* de265_push_NAL and how far into bytes Push got.
CallPush(bytes) ==
  /\ Running
  /\ \E p \in {Push(bytes)} :
       /\ ret' = [op |-> "Push", id |-> 0, res |-> p.res, err |-> p.err]
       /\ dec' = [op |-> "Push", data |-> bytes, nals |-> p.nals, pos |-> p.pos]
  /\ UNCHANGED <<ra, metaErr, meta, item, data, firstErr, writes, reads, twin, consumed,
                 reader, bufr>>

\* dec.Push(hdr) on the header AsHeader has just returned.
CallPushHeader ==
  /\ ret.op = "AsHeader"
  /\ CallPush(data.bytes)

NextImage ==
  \/ \E o \in ImageOracles : CallDecode(o)
  \/ CallPrimaryItem
  \/ \E id \in 0..MaxItemID : CallItemByID(id)
  \/ CallAsHeader
  \/ CallPushHeader

SpecImage == InitImage /\ [][NextImage]_vars

(***************************************************************************)
(* The decoders: Decode over sources whose items the decoders get, with the *)
(* library's answers and SafeEncoding as inputs.                            *)
(***************************************************************************)
InitDecoder ==
  /\ ra \in DecoderSources
  /\ Fresh
  /\ reader = NoReader
  /\ bufr = NoBufReader
  /\ dec = NoDecode

NextDecoder == \E o \in Oracles : CallDecode(o)

SpecDecoder == InitDecoder /\ [][NextDecoder]_vars

(***************************************************************************)
(* Push of its own: Decoder.Push over byte slices of every framing.         *)
(***************************************************************************)
MaxPushLen == 10

RECURSIVE SlicesOf(_)
SlicesOf(n) ==
  IF n = 0 THEN { <<>> }
  ELSE SlicesOf(n - 1) \cup { <<c>> \o s : c \in {0, 1}, s \in SlicesOf(n - 1) }

\* The byte slices of 0 to MaxPushLen bytes 0 and 1: units of size 0 and 1, sizes
\* that exceed the slice, length prefixes cut short.
PushInputs == SlicesOf(MaxPushLen)

InitPush ==
  /\ ra \in PushInputs
  /\ Fresh
  /\ reader = NoReader
  /\ bufr = NoBufReader
  /\ dec = NoDecode

\* dec.Push(data) on the slice ra.
CallPushInput ==
  /\ ret.op = "none"
  /\ CallPush(ra)

NextPush == CallPushInput

SpecPush == InitPush /\ [][NextPush]_vars

(***************************************************************************)
(* Two handles: a second File opened over the same bytes gets every query   *)
(* the first one gets.                                                      *)
(***************************************************************************)
TwinFile == [ra |-> ra, metaErr |-> twin.metaErr, meta |-> twin.meta, reads |-> twin.reads]

TwinRunning == twin.ret.res # "panic"

\* What the second handle and its caller hold after a call that left the File f,
\* returned r and handed out the item it and the slice d.
TwinAfter(f, r, it, d) ==
  [metaErr |-> f.metaErr, meta |-> f.meta, reads |-> f.reads, ret |-> r, item |-> it,
   data |-> d]

TwinSources == { MkFile(d) : d \in ExtentDescs \cup StructureDescs \cup MalformedDescs }

InitTwin ==
  /\ ra \in TwinSources
  /\ Fresh
  /\ reader = NoReader
  /\ bufr = NoBufReader
  /\ dec = NoDecode

\* The result of a call as ret records it.
RetOf(op, id, res, err) == [op |-> op, id |-> id, res |-> res, err |-> err]

ResOf(err) == IF err = Nil THEN "value" ELSE "error"

BothEXIF ==
  /\ Running /\ TwinRunning
  /\ \E r \in {EXIF(File)}, t \in {EXIF(TwinFile)} :
       /\ Called(r.f, r.err)
       /\ ret' = RetOf("EXIF", 0, r.res, r.err)
       /\ data' = IF r.res = "value" THEN r.data ELSE data
       /\ twin' = TwinAfter(t.f, RetOf("EXIF", 0, t.res, t.err), twin.item,
                            IF t.res = "value" THEN t.data ELSE twin.data)
       /\ UNCHANGED <<item, consumed, lowLevel>>

BothPrimaryItem ==
  /\ Running /\ TwinRunning
  /\ \E r \in {PrimaryItem(File)}, t \in {PrimaryItem(TwinFile)} :
       /\ Called(r.f, r.err)
       /\ ret' = RetOf("PrimaryItem", 0, ResOf(r.err), r.err)
       /\ item' = IF r.err = Nil THEN r.it ELSE item
       /\ twin' = TwinAfter(t.f, RetOf("PrimaryItem", 0, ResOf(t.err), t.err),
                            IF t.err = Nil THEN t.it ELSE twin.item, twin.data)
       /\ UNCHANGED <<data, consumed, lowLevel>>

BothItemByID(id) ==
  /\ Running /\ TwinRunning
  /\ \E r \in {ItemByID(File, id)}, t \in {ItemByID(TwinFile, id)} :
       /\ Called(r.f, r.err)
       /\ ret' = RetOf("ItemByID", id, ResOf(r.err), r.err)
       /\ item' = IF r.err = Nil THEN r.it ELSE item
       /\ twin' = TwinAfter(t.f, RetOf("ItemByID", id, ResOf(t.err), t.err),
                            IF t.err = Nil THEN t.it ELSE twin.item, twin.data)
       /\ UNCHANGED <<data, consumed, lowLevel>>

\* GetItemData on each handle, for the Item that handle returned.
BothGetItemData ==
  /\ Running /\ TwinRunning
  /\ item # NoValue /\ twin.item # NoValue
  /\ \E r \in {GetItemData(File, item)}, t \in {GetItemData(TwinFile, twin.item)} :
       /\ ret' = RetOf("GetItemData", item.ID, r.res, r.err)
       /\ data' = IF r.res = "value" THEN r.data ELSE data
       /\ twin' = TwinAfter(TwinFile, RetOf("GetItemData", twin.item.ID, t.res, t.err),
                            twin.item, IF t.res = "value" THEN t.data ELSE twin.data)
       /\ UNCHANGED <<ra, metaErr, meta, item, firstErr, writes, reads, consumed, lowLevel>>

NextTwin ==
  \/ BothEXIF
  \/ BothPrimaryItem
  \/ \E id \in 0..MaxItemID : BothItemByID(id)
  \/ BothGetItemData
  \/ \E i \in 1..Len(data.bytes) : CallerWrite(i)

SpecTwin == InitTwin /\ [][NextTwin]_vars

(***************************************************************************)
(* The properties.                                                         *)
(***************************************************************************)
\* The operations that go through getMeta.
MetaOps == {"EXIF", "PrimaryItem", "ItemByID"}

\* C1: once an EXIF, PrimaryItem or ItemByID call has failed inside getMeta, the
\* File's sticky error is non-nil from then on and every later such call returns
\* that first error.
StickyErrorIsCached ==
  firstErr # Nil =>
    /\ metaErr # Nil
    /\ ret.op \in MetaOps => ret.err = firstErr

\* C2: every operation returns a value or an error; none panics.
NoOperationPanics == ret.res # "panic"

\* C3: what EXIF returns is the Exif item's payload, as GetItemData returns it,
\* without its first 4 bytes: 4 bytes shorter, the rest unchanged and in order.
ExifStripsFourBytes ==
  (ret.op = "EXIF" /\ ret.res = "value") =>
    Let(ItemByID(File, EXIFItemID(meta)), LAMBDA ib :
      Let(GetItemData(ib.f, ib.it), LAMBDA gd :
        /\ gd.res = "value"
        /\ Len(data.bytes) = Len(gd.data.bytes) - 4
        /\ \A i \in 1..Len(data.bytes) : data.bytes[i] = gd.data.bytes[i + 4]))

\* EXIF has returned a payload of at least one byte.
ExifReturnedBytes == ret.op = "EXIF" /\ ret.res = "value" /\ Len(data.bytes) >= 1

\* The parsed iinf holds an infe of item type "Exif".
HasExifInfe ==
  /\ meta.ItemInfo # NoValue
  /\ \E i \in 1..Len(meta.ItemInfo.ItemInfos) : meta.ItemInfo.ItemInfos[i].ItemType = StrExif

\* C4: over parsed metadata, EXIF returns ErrNoEXIF exactly when iinf holds no
\* infe of type "Exif", whatever the item id of such an infe.
NoExifIffNoExifInfe ==
  (ret.op = "EXIF" /\ meta # NoValue) => (ret.err = ErrNoEXIF <=> ~HasExifInfe)

\* The parsed iinf holds an infe whose item id is id.
HasInfe(id) ==
  /\ meta.ItemInfo # NoValue
  /\ \E i \in 1..Len(meta.ItemInfo.ItemInfos) : meta.ItemInfo.ItemInfos[i].ItemID = id

PitmBoxes ==
  SelectSeq(ReadAndParseBox(ReadAndParseBox(NewReader(ra), TypeFtyp).r, TypeMeta).v.Children,
            LAMBDA c : c.boxType = TypePitm)

\* The item id the (last) pitm box declares: after the 4 FullBox bytes a u16 when
\* the version is 0 and a u32 when it is 1 or more.
DeclaredPrimaryID ==
  LET b == PitmBoxes[Len(PitmBoxes)].slurp IN
  IF b[1] = 0 THEN BE16(SubSeq(b, 5, 6)) ELSE BE32(SubSeq(b, 5, 8))

\* C6: over parsed metadata, PrimaryItem fails when meta has no pitm child and
\* otherwise returns what ItemByID returns for the item id the pitm box declares
\* (u16 for version 0, u32 for version 1 or more).
PrimaryItemIsDeclaredItem ==
  (ret.op = "PrimaryItem" /\ meta # NoValue) =>
    IF Len(PitmBoxes) = 0 THEN ret.res = "error"
    ELSE Let(ItemByID(File, DeclaredPrimaryID), LAMBDA ib :
           /\ ret.err = ib.err
           /\ ib.err = Nil => item = ib.it)

\* GetItemData has just answered for an Item that has a location of one extent.
GotItemData ==
  /\ ret.op = "GetItemData"
  /\ item.Location # NoValue
  /\ Len(item.Location.Extents) = 1

\* C7: for construction method 1 and one extent, GetItemData returns the bytes
\* idat[offset : offset+length] when offset+length <= |idat|, and an error when
\* offset+length > |idat| or meta has no idat.
IdatSliceOrError ==
  (GotItemData /\ item.Location.ConstructionMethod = 1) =>
    LET e == item.Location.Extents[1] IN
    IF meta.ItemData = NoValue THEN ret.res = "error"
    ELSE IF \/ U64AddWraps(e.Offset, e.Length)
            \/ U64Lt(U64Of(Len(meta.ItemData.Data)), U64Add(e.Offset, e.Length))
      THEN ret.res = "error"
    ELSE /\ ret.res = "value"
         /\ data.bytes = SubSeq(meta.ItemData.Data, U64ToInt(e.Offset) + 1,
                                U64ToInt(e.Offset) + U64ToInt(e.Length))

\* C8: no sum wraps in GetItemData: when offset+length (method 1) or
\* base_offset+offset (method 0) exceeds 64 bits, or the read position does not
\* fit a signed 64-bit offset, the call returns an error.
NoWrappedSumIsUsed ==
  GotItemData =>
    LET loc == item.Location
        e == item.Location.Extents[1]
    IN
    /\ (loc.ConstructionMethod = 1 /\ U64AddWraps(e.Offset, e.Length))
         => ret.res = "error"
    /\ (/\ loc.ConstructionMethod # 1
        /\ \/ U64AddWraps(e.Offset, loc.BaseOffset)
           \/ Int64Negative(U64Add(e.Offset, loc.BaseOffset)))
         => ret.res = "error"

\* C9: the slice GetItemData or EXIF returned is the caller's own: a write into
\* it leaves the File's BoxMeta (its idat data, and so what later calls return)
\* as it was.
CallerWriteLeavesFileAlone == [][ret'.op = "write" => meta' = meta]_vars

\* C10: GetItemData answers an extent whose length is above 200 MiB with an error,
\* whatever the construction method, and its cap does not reject a length of
\* exactly 200 MiB.
LengthAboveCapIsRejected ==
  GotItemData =>
    LET e == item.Location.Extents[1] IN
    /\ U64Lt(U64Of(maxSize), e.Length) => ret.res = "error"
    /\ e.Length = U64Of(maxSize) => ret.err # "heif: declared size exceeds threshold"

\* PrimaryItem or ItemByID has just returned an Item of a File that has an iprp.
GotItemWithProperties ==
  /\ ret.op \in {"PrimaryItem", "ItemByID"}
  /\ ret.err = Nil
  /\ meta.Properties # NoValue

\* The property pool: the children of ipco, in file order.
Pool == meta.Properties.PropertyContainer.Properties

\* The ipma boxes of iprp, in file order.
IpmaBoxes == meta.Properties.Associations

\* A property index that names a property of the pool: 1 <= idx <= |pool|.
InRange(idx) == idx >= 1 /\ idx <= Len(Pool)

\* The pool's property at position idx - 1 as an Item holds it: typed if it
\* parses, raw otherwise.
PropertyAt(idx) == Let(Parse(Pool[idx]), LAMBDA p : IF p.err = Nil THEN p.v ELSE Pool[idx])

\* The in-range indices that the ipma box a associates with item id, in the
\* order of its entries and of their associations.
IndexList(a, id) ==
  Concat([e \in 1..Len(a.Entries) |->
            IF a.Entries[e].ItemID = id
              THEN SelectSeq([j \in 1..Len(a.Entries[e].Associations) |->
                                a.Entries[e].Associations[j].Index], InRange)
            ELSE <<>>])

\* The ipma boxes that yield at least one property for item id.
Contributing(id) == { a \in 1..Len(IpmaBoxes) : IndexList(IpmaBoxes[a], id) # <<>> }

\* The indices used for item id: those of the first contributing ipma box.
UsedIndexList(id) ==
  IF Contributing(id) = {} THEN <<>>
  ELSE IndexList(IpmaBoxes[CHOOSE a \in Contributing(id) :
                             \A b \in Contributing(id) : a <= b], id)

\* C11: every element of the Properties of an Item that ItemByID built is the
\* pool property at position idx - 1 (typed if it parses, raw otherwise) for an
\* in-range index idx that an ipma associates with the item; indices that are 0
\* or beyond the pool contribute nothing, so the number of elements is the number
\* of in-range indices used.
PropertiesAreInRangeAssociations ==
  GotItemWithProperties =>
    /\ \A k \in 1..Len(item.Properties) :
         \E a \in 1..Len(IpmaBoxes) :
           \E i \in 1..Len(IndexList(IpmaBoxes[a], item.ID)) :
             item.Properties[k] = PropertyAt(IndexList(IpmaBoxes[a], item.ID)[i])
    /\ Len(item.Properties) = Len(UsedIndexList(item.ID))

\* An Item holds a typed and a raw property while its associations also name the
\* index 0 and an index beyond the pool.
ItemHoldsTypedAndRawProperty ==
  /\ GotItemWithProperties
  /\ \E k \in 1..Len(item.Properties) : item.Properties[k].kind = "box"
  /\ \E k \in 1..Len(item.Properties) : item.Properties[k].kind # "box"
  /\ \E a \in 1..Len(IpmaBoxes) : \E e \in 1..Len(IpmaBoxes[a].Entries) :
       /\ IpmaBoxes[a].Entries[e].ItemID = item.ID
       /\ \E j \in 1..Len(IpmaBoxes[a].Entries[e].Associations) :
            IpmaBoxes[a].Entries[e].Associations[j].Index = 0
       /\ \E j \in 1..Len(IpmaBoxes[a].Entries[e].Associations) :
            IpmaBoxes[a].Entries[e].Associations[j].Index > Len(Pool)

\* The grid item of the source and what Decode is to make of it, read off the
\* primary item: its record's rows and columns and the tile list of its first
\* dimg reference.
PrimaryOfSource == PrimaryItem(Open(ra))

PrimaryIsGrid ==
  /\ PrimaryOfSource.err = Nil
  /\ PrimaryOfSource.it.Info.ItemType = StrGrid
  /\ SpatialExtents(PrimaryOfSource.it).ok
  /\ GetItemData(PrimaryOfSource.f, PrimaryOfSource.it).res = "value"
  /\ Len(GetItemData(PrimaryOfSource.f, PrimaryOfSource.it).data.bytes) >= 8
  /\ \E i \in 1..Len(PrimaryOfSource.it.References) :
       PrimaryOfSource.it.References[i].boxType = TypeDimg

GridBytes == GetItemData(PrimaryOfSource.f, PrimaryOfSource.it).data.bytes

GridRows == GridBytes[3] + 1

GridColumns == GridBytes[4] + 1

DimgTiles ==
  PrimaryOfSource.it.References[
    CHOOSE i \in 1..Len(PrimaryOfSource.it.References) :
      /\ PrimaryOfSource.it.References[i].boxType = TypeDimg
      /\ \A j \in 1..(i - 1) : PrimaryOfSource.it.References[j].boxType # TypeDimg
  ].ToItemIDs

\* C12: Decode of a grid item takes rows and columns, each in 1..256, from the grid
\* record; when the dimg list does not hold exactly rows * columns ids it returns
\* an error before any tile is looked up; the tiles it looks up are the ids of the
\* dimg list in order, the k-th placed at column (k-1) mod columns of row
\* (k-1) div columns, and a Decode that succeeds has looked up all of them.
GridTilesMatchInRowMajorOrder ==
  (ret.op = "Decode" /\ PrimaryIsGrid) =>
    /\ GridRows \in 1..256 /\ GridColumns \in 1..256
    /\ Len(DimgTiles) # GridRows * GridColumns => ret.res = "error" /\ consumed = <<>>
    /\ Len(consumed) <= Len(DimgTiles)
    /\ \A k \in 1..Len(consumed) :
         consumed[k] = [id |-> DimgTiles[k], x |-> (k - 1) % GridColumns,
                        y |-> (k - 1) \div GridColumns]
    /\ ret.res = "value" =>
         Len(consumed) = GridRows * GridColumns /\ Len(consumed) = Len(DimgTiles)

\* Decode has succeeded on a grid of two rows and two columns of different tiles.
DecodedTwoByTwoGrid ==
  /\ ret.op = "Decode" /\ ret.res = "value" /\ PrimaryIsGrid
  /\ GridRows = 2 /\ GridColumns = 2
  /\ Len(consumed) = 4
  /\ consumed[2].id # consumed[3].id

RECURSIVE DeclaredUnits(_, _, _, _)
\* The units the body b of an hvcC box declares from position p on, with na arrays
\* and nu units of the current array still to come: each as [size, bytes], in the
\* order of the arrays and, in each, of the units.
DeclaredUnits(b, p, na, nu) ==
  IF nu > 0
    THEN <<[size |-> BE16(SubSeq(b, p, p + 1)),
            bytes |-> SubSeq(b, p + 2, p + 1 + BE16(SubSeq(b, p, p + 1)))]>>
         \o DeclaredUnits(b, p + 2 + BE16(SubSeq(b, p, p + 1)), na, nu - 1)
  ELSE IF na > 0 THEN DeclaredUnits(b, p + 3, na - 1, BE16(SubSeq(b, p + 1, p + 2)))
  ELSE <<>>

\* The units of the hvcC box of the item, as its body declares them after the 22
\* bytes of configuration and the count of arrays.
UnitsOfItem == DeclaredUnits(HevcConfig(item).b.box.slurp, 24, HevcConfig(item).b.box.slurp[23], 0)

StoredUnitsOfItem == SelectSeq(UnitsOfItem, LAMBDA u : u.size # 0)

\* C13: AsHeader of a parsed hvcC box is, for every unit the box declares with a
\* size other than 0, in array order and then unit order, the 4 bytes of the
\* unit's length (big-endian) followed by the unit; its length is the sum of
\* 4 + the unit's length over these units and no length it writes is 0.
AsHeaderIsLengthPrefixedUnits ==
  ret.op = "AsHeader" =>
    /\ data.bytes = Concat([k \in 1..Len(StoredUnitsOfItem) |->
                              <<0, 0, StoredUnitsOfItem[k].size \div 256,
                                StoredUnitsOfItem[k].size % 256>>
                              \o StoredUnitsOfItem[k].bytes])
    /\ Len(data.bytes) = Len(Concat([k \in 1..Len(StoredUnitsOfItem) |->
                                       StoredUnitsOfItem[k].bytes]))
                         + 4 * Len(StoredUnitsOfItem)
    /\ \A a \in 1..Len(HevcConfig(item).b.nalArray) :
         \A u \in 1..Len(HevcConfig(item).b.nalArray[a].units) :
           Len(HevcConfig(item).b.nalArray[a].units[u]) > 0

\* AsHeader has run on a box of two arrays that declares units of size 0 before and
\* after a unit with bytes.
AsHeaderOverEmptyAndStoredUnits ==
  /\ ret.op = "AsHeader"
  /\ Len(HevcConfig(item).b.nalArray) >= 2
  /\ Len(StoredUnitsOfItem) >= 2
  /\ \E k \in 2..(Len(UnitsOfItem) - 1) :
       /\ UnitsOfItem[k].size # 0
       /\ UnitsOfItem[k - 1].size = 0
       /\ UnitsOfItem[k + 1].size = 0

\* The calls that query a File.
Queries == MetaOps \cup {"GetItemData"}

\* C14: two handles over the same bytes that were given the same queries hold the
\* same BoxMeta and sticky error, and their last query returned the same result:
\* the same error, the same item, the same bytes.
TwinHandlesAgree ==
  ret.op \in Queries =>
    /\ twin.ret = ret
    /\ twin.metaErr = metaErr
    /\ twin.meta = meta
    /\ (ret.op \in {"PrimaryItem", "ItemByID"} /\ ret.res = "value") => twin.item = item
    /\ (ret.op \in {"EXIF", "GetItemData"} /\ ret.res = "value") =>
         twin.data.bytes = data.bytes

\* The header at the start of the bytes b, as the box format has it: the length of
\* the header and the declared size (a uint64), or none when b holds no header.
HeaderAt(b) ==
  IF Len(b) < 8 THEN [any |-> FALSE, len |-> 0, size |-> U64Of(0)]
  ELSE IF SubSeq(b, 1, 4) # <<0, 0, 0, 1>>
    THEN [any |-> TRUE, len |-> 8, size |-> U64OfBE32(SubSeq(b, 1, 4))]
  ELSE IF Len(b) < 16 THEN [any |-> FALSE, len |-> 0, size |-> U64Of(0)]
  ELSE [any |-> TRUE, len |-> 16, size |-> SubSeq(b, 9, 16)]

\* The declared size covers the header and fits a signed 64-bit integer.
SizeCoversHeader(h) == h.any /\ ~Int64Negative(h.size) /\ ~U64Lt(h.size, U64Of(h.len))

RECURSIVE BoxesOverrun(_, _)
\* Among the first n boxes laid out in the bytes b, one declares a size larger
\* than the bytes that remain in b.
BoxesOverrun(b, n) ==
  IF n = 0 \/ ~SizeCoversHeader(HeaderAt(b)) THEN FALSE
  ELSE IF U64Lt(U64Of(Len(b)), HeaderAt(b).size) THEN TRUE
  ELSE BoxesOverrun(Drop(b, U64ToInt(HeaderAt(b).size)), n - 1)

\* The bytes after the first box of the source: where the meta box is looked for.
AfterFtyp ==
  IF SizeCoversHeader(HeaderAt(ra)) /\ ~U64Lt(U64Of(Len(ra)), HeaderAt(ra).size)
  THEN Drop(ra, U64ToInt(HeaderAt(ra).size)) ELSE <<>>

\* The bytes of the children of the second box of the source: its body as far as
\* the source holds it, without the 4 bytes of version and flags.
ChildrenOfSecondBox ==
  IF ~SizeCoversHeader(HeaderAt(AfterFtyp)) THEN <<>>
  ELSE IF U64Lt(U64Of(Len(AfterFtyp)), HeaderAt(AfterFtyp).size)
    THEN Drop(AfterFtyp, HeaderAt(AfterFtyp).len + 4)
  ELSE Drop(Take(AfterFtyp, U64ToInt(HeaderAt(AfterFtyp).size)), HeaderAt(AfterFtyp).len + 4)

\* A top-level box (ftyp, meta) or a child of meta declares more bytes than remain
\* in the source or in the body of meta.
SourceOverruns ==
  \/ BoxesOverrun(ra, 2)
  \/ BoxesOverrun(ChildrenOfSecondBox, Len(ChildrenOfSecondBox))

\* C15: when a top-level box or a child of meta declares a size larger than the
\* bytes that remain, every query on the File returns an error.
OverrunFailsEveryQuery ==
  (SourceOverruns /\ ret.op \in Queries) => ret.res = "error"

\* C16: a box of unknown type among the children of meta, of iinf or of iprp does
\* not make an operation fail: on the well-formed source with such a box added,
\* EXIF and PrimaryItem return their values as they do without it.
UnknownChildIsSkipped ==
  (ra \in {MkFile(d) : d \in StrayDescs} /\ ret.op \in {"EXIF", "PrimaryItem"}) =>
    ret.res = "value"

\* The BoxMeta m without what box.Parse caches in the boxes of the property pool.
WithoutParseCache(m) ==
  IF m = NoValue THEN m
  ELSE IF m.Properties = NoValue THEN m
  ELSE [m EXCEPT !.Properties.PropertyContainer.Properties =
                   [k \in 1..Len(@) |-> IF @[k].kind = "box"
                                        THEN [@[k] EXCEPT !.parsed = NoValue] ELSE @[k]]]

\* C17: Open reads nothing and builds no BoxMeta; once a File holds a BoxMeta,
\* every operation on it leaves the count of reads of the source at 1 and the
\* BoxMeta's slots as they are (a box of the property pool may cache its parsed
\* value, nothing else changes).
BoxMetaIsBuiltOnce ==
  /\ reads = 0 /\ meta = NoValue /\ metaErr = Nil
  /\ [][(meta # NoValue /\ ret'.op \in Queries) =>
          /\ reads = 1 /\ reads' = reads
          /\ meta' # NoValue
          /\ WithoutParseCache(meta') = WithoutParseCache(meta)]_vars

\* EXIF has returned from a File that had handed out an Item before, with the
\* source read once.
LaterOperationReusedBoxMeta ==
  /\ ret.op = "EXIF" /\ ret.res = "value"
  /\ item # NoValue
  /\ meta # NoValue
  /\ reads = 1

\* C18: the properties of an item are those of the first ipma box, in file order,
\* that yields a property for its id, in the order of that box's associations; an
\* ipma box that yields none does not end the search and the boxes after the
\* first that yields one add nothing.
PropertiesFromFirstContributingIpma ==
  GotItemWithProperties =>
    item.Properties = [k \in 1..Len(UsedIndexList(item.ID)) |->
                         PropertyAt(UsedIndexList(item.ID)[k])]

\* An item was resolved whose first two ipma boxes yield nothing for it, the third
\* yields properties and a later one would yield one too.
LaterIpmaWasIgnored ==
  /\ GotItemWithProperties
  /\ Cardinality(Contributing(item.ID)) >= 2
  /\ \A a \in Contributing(item.ID) : a >= 3
  /\ Len(item.Properties) = 2

\* C19: an iloc box that parsed into item entries declares only the widths 0, 4
\* and 8 for its offsets, lengths and base offsets.
IlocWidthsAreZeroFourOrEight ==
  (meta # NoValue /\ meta.ItemLocation # NoValue /\ Len(meta.ItemLocation.Items) > 0) =>
    {meta.ItemLocation.offsetSize, meta.ItemLocation.lengthSize,
     meta.ItemLocation.baseOffsetSize} \subseteq {0, 4, 8}

\* ReadBox, given a reader rd that stands at the bytes b, has treated the header at
\* the start of b as the format asks: a declared size that covers the header and
\* fits int64 gives a box of that size and type whose body is the declared size
\* less the header (8 bytes, 16 with a 64-bit size), and all of these bytes when b
\* holds them; any other size gives an error and no box.  A size field of 0 (to
\* the end of the source) and a header that b does not hold are left aside.
HeaderIsHonoured(b, rd) ==
  (HeaderAt(b).any /\ SubSeq(b, 1, 4) # <<0, 0, 0, 0>>) =>
    IF SizeCoversHeader(HeaderAt(b))
    THEN /\ ReadBox(rd).err = Nil
         /\ ReadBox(rd).box = [NoBox EXCEPT !.size = HeaderAt(b).size,
                                            !.boxType = SubSeq(b, 5, 8)]
         /\ ReadBox(rd).r.pending = U64Sub(HeaderAt(b).size, U64Of(HeaderAt(b).len))
         /\ ~U64Lt(U64Of(Len(b)), HeaderAt(b).size) =>
              Body(ReadBox(rd).r) = SubSeq(b, HeaderAt(b).len + 1, U64ToInt(HeaderAt(b).size))
    ELSE /\ ReadBox(rd).err # Nil
         /\ ReadBox(rd).box = NoBox

\* The first box of the source is rejected by its size.
FirstBoxRejected ==
  /\ HeaderAt(ra).any /\ SubSeq(ra, 1, 4) # <<0, 0, 0, 0>>
  /\ ~SizeCoversHeader(HeaderAt(ra))

\* C20: for the first box of the source, the box after it and the first child of
\* that one, ReadBox gives a body of the declared size less 8 (32-bit size of 2 or
\* more) or less 16 (size field 1, 64-bit size), and gives an error and no box
\* when that is negative or the 64-bit size does not fit int64; an operation on a
\* File whose first box is rejected so returns an error.
ReadBoxBodyIsSizeLessHeader ==
  /\ HeaderIsHonoured(ra, NewReader(ra))
  /\ AfterFtyp # <<>> =>
       HeaderIsHonoured(AfterFtyp, Slurp(ReadBox(NewReader(ra)).r).r)
  /\ HeaderIsHonoured(ChildrenOfSecondBox, NewReader(ChildrenOfSecondBox))
  /\ (FirstBoxRejected /\ ret.op \in MetaOps) => ret.res = "error"

\* A File was built from a source whose meta box has a 64-bit size.
BuiltFromSixtyFourBitSize ==
  /\ meta # NoValue
  /\ ret.op \in MetaOps
  /\ HeaderAt(AfterFtyp).len = 16
  /\ SizeCoversHeader(HeaderAt(AfterFtyp))

(***************************************************************************)
(* A Reader of its own: NewReader over a stream of boxes, then ReadBox and  *)
(* reads of the last box's Body in any order.                               *)
(***************************************************************************)
MaxStreamBoxes == 3

MaxStreamCut == 1

MaxBodyRead == 2

MaxReadBoxes == 5

\* The boxes and headers the streams are made of: bodies of 0 to 3 bytes under a
\* 32-bit and a 64-bit size, a size of 0, and a size smaller than the header.
StreamPieces ==
  { MkBox(TypeFree, <<>>),
    MkBox(TypeIrot, <<1, 2, 3>>),
    MkBoxWith(Header64(2), TypeImir, <<4, 5>>),
    MkBoxWith([size |-> <<0, 0, 0, 0>>, large |-> <<>>], TypeIdat, <<6>>),
    MkBoxWith([size |-> <<0, 0, 0, 5>>, large |-> <<>>], TypeFree, <<>>) }

RECURSIVE StreamsOf(_)
StreamsOf(n) ==
  IF n = 0 THEN { <<>> }
  ELSE StreamsOf(n - 1) \cup { s \o p : s \in StreamsOf(n - 1), p \in StreamPieces }

\* Streams of boxes, whole or cut short.
ReaderStreams ==
  { Take(s, Len(s) - c) : s \in StreamsOf(MaxStreamBoxes), c \in 0..MaxStreamCut }

\* How far into ra the Reader's stream is.
ReaderPos(r) == Len(ra) - Len(r.s)

\* Where a box of the given size ends that starts at offset at of ra, and the end
\* of ra if it ends beyond.
BoxEnd(at, size) ==
  IF U64Small(size) THEN Min(at + U64ToInt(size), Len(ra)) ELSE Len(ra)

InitReader ==
  /\ ra \in ReaderStreams
  /\ Fresh
  /\ reader = [op |-> "NewReader", r |-> NewReader(ra), err |-> Nil, box |-> NoBox,
               n |-> 0, at |-> 0, expect |-> 0, sized |-> FALSE, zero |-> FALSE,
               took |-> 0, left |-> 0]
  /\ bufr = NoBufReader
  /\ dec = NoDecode

\* Where the header starts that the next ReadBox is to read: at the start of the
\* stream, where the size of the box returned last puts the end of that box, or,
\* after a failed ReadBox, where the stream is.
NextHeaderAt ==
  IF reader.n = 0 THEN 0
  ELSE IF reader.err = Nil THEN reader.expect
  ELSE ReaderPos(reader.r)

\* r.ReadBox().  History: at is where this call's header starts by the sizes of
\* the boxes before it, expect where this box ends by its own size; sized says
\* that the call before returned a box of a size other than 0, zero that some call
\* returned a box of size 0, left how much of the last body was unread.
CallReadBox ==
  /\ reader.op # "none"
  /\ reader.n < MaxReadBoxes
  /\ \E c \in {ReadBox(reader.r)} :
       reader' =
         [op |-> "ReadBox", r |-> c.r, err |-> c.err, box |-> c.box,
          n |-> reader.n + 1,
          at |-> NextHeaderAt,
          expect |-> IF c.err = Nil /\ c.box.size # U64Of(0)
                       THEN BoxEnd(NextHeaderAt, c.box.size)
                     ELSE Len(ra),
          sized |-> reader.n > 0 /\ reader.err = Nil /\ reader.box.size # U64Of(0),
          zero |-> reader.zero \/ (c.err = Nil /\ c.box.size = U64Of(0)),
          took |-> IF reader.op = "Read" THEN reader.took ELSE 0,
          left |-> Len(Body(reader.r))]
  /\ UNCHANGED <<ra, metaErr, meta, ret, item, data, firstErr, writes, reads, twin, consumed,
                 bufr, dec>>

\* A Read of at most n bytes on the Body of the box the last ReadBox returned.
ReadBody(r, n) ==
  [r EXCEPT !.s = Drop(r.s, Min(n, Len(Body(r)))),
            !.pending = IF U64Small(r.pending)
                          THEN U64Of(U64ToInt(r.pending) - Min(n, Len(Body(r))))
                        ELSE U64Sub(r.pending, U64Of(Min(n, Len(Body(r)))))]

CallReadBody(n) ==
  /\ reader.op # "none"
  /\ reader.err = Nil
  /\ reader.n > 0
  /\ Len(Body(reader.r)) > 0
  /\ reader' = [reader EXCEPT !.op = "Read", !.r = ReadBody(reader.r, n),
                              !.took = IF reader.op = "ReadBox" THEN Min(n, Len(Body(reader.r)))
                                       ELSE @ + Min(n, Len(Body(reader.r)))]
  /\ UNCHANGED <<ra, metaErr, meta, ret, item, data, firstErr, writes, reads, twin, consumed,
                 bufr, dec>>

NextReader ==
  \/ CallReadBox
  \/ \E n \in 1..MaxBodyRead : CallReadBody(n)

SpecReader == InitReader /\ [][NextReader]_vars

\* C21: once ReadBox has returned a box whose size field is 0, the body of that
\* box is all that is left of the stream, and every later ReadBox returns io.EOF
\* and no box and leaves the stream where it was.
ZeroSizeEndsTheReader ==
  /\ [](reader.op # "none" /\ reader.zero /\ reader.err = Nil
          => /\ Body(reader.r) = reader.r.s
             /\ reader.op = "ReadBox"
                  => /\ SubSeq(ra, reader.at + 1, reader.at + 4) = <<0, 0, 0, 0>>
                     /\ reader.r.s = Drop(ra, reader.at + 8))
  /\ [][reader.op # "none" /\ reader.zero /\ reader'.n = reader.n + 1
          => /\ reader'.err = "EOF"
             /\ reader'.box = NoBox
             /\ reader'.r.s = reader.r.s]_vars

\* A ReadBox after a box of size 0 whose body the caller had not read to its end.
ReadBoxAfterZeroSizeBox ==
  /\ reader.op = "ReadBox"
  /\ reader.zero
  /\ reader.err = "EOF"
  /\ reader.n >= 3
  /\ Len(reader.r.s) > 0

\* C22: the ReadBox after one that returned a box of a size other than 0 reads its
\* header where that size puts the end of the box, whatever the caller read of the
\* body in between: it returns the size and type that are there and leaves the
\* stream at the end of that header, or fails where no acceptable header is.
NextHeaderFollowsDeclaredSize ==
  reader.op = "ReadBox" /\ reader.sized =>
    Let(Drop(ra, reader.at), LAMBDA b :
      IF reader.err = Nil
        THEN /\ HeaderAt(b).any
             /\ SizeCoversHeader(HeaderAt(b)) \/ Take(b, 4) = <<0, 0, 0, 0>>
             /\ reader.box.size = HeaderAt(b).size
             /\ reader.box.boxType = SubSeq(b, 5, 8)
             /\ ReaderPos(reader.r) = reader.at + HeaderAt(b).len
        ELSE /\ ~SizeCoversHeader(HeaderAt(b))
             /\ Take(b, 4) # <<0, 0, 0, 0>> \/ Len(b) < 8
             /\ reader.box = NoBox)

\* A ReadBox that returned a box after the caller had read some, but not all, of
\* the body of the box before it.
ReadBoxAfterPartlyReadBody ==
  /\ reader.op = "ReadBox"
  /\ reader.sized
  /\ reader.err = Nil
  /\ reader.took > 0
  /\ reader.left > 0

(***************************************************************************)
(* A bufReader of its own: the primitives called in any order on one body.  *)
(***************************************************************************)
MaxBodyLen == 8

MaxBufCalls == 3

RECURSIVE BodiesOf(_)
BodiesOf(n) ==
  IF n = 0 THEN { <<>> }
  ELSE BodiesOf(n - 1) \cup { <<c>> \o s : c \in {0, 7}, s \in BodiesOf(n - 1) }

\* Box bodies of 0 to MaxBodyLen bytes, with and without NUL bytes.
BufBodies == BodiesOf(MaxBodyLen)

\* The widths readUintN is called with: the four it reads, 0, and widths it rejects.
UintNBits == {0, 4, 8, 16, 24, 32, 64}

InitBuf ==
  /\ ra \in BufBodies
  /\ Fresh
  /\ reader = NoReader
  /\ bufr = [op |-> "NewBufReader", bits |-> 0, br |-> NewBufReader(ra), v |-> 0, err |-> Nil,
             was |-> Nil, first |-> Nil, taken |-> 0, had |-> Len(ra), n |-> 0]
  /\ dec = NoDecode

\* One call of a primitive that left the bufReader c.br and yielded c.v, and the
\* error it returned.  History: was is the sticky error when the call was made,
\* first the first error any call returned, had the bytes unread when the call
\* was made, taken how many of them the call consumed.
BufCalled(op, bits, c, err) ==
  /\ bufr' = [op |-> op, bits |-> bits, br |-> c.br, v |-> c.v, err |-> err,
              was |-> bufr.br.err,
              first |-> IF bufr.first = Nil THEN err ELSE bufr.first,
              taken |-> Len(bufr.br.buf) - Len(c.br.buf),
              had |-> Len(bufr.br.buf),
              n |-> bufr.n + 1]
  /\ UNCHANGED <<ra, metaErr, meta, ret, item, data, firstErr, writes, reads, twin, consumed,
                 reader, dec>>

BufReady == bufr.op # "none" /\ bufr.n < MaxBufCalls

\* The primitives return br.err, except readUintN of 0 bits, which returns nil
\* when br.err is nil.
CallReadUint8 ==
  /\ BufReady
  /\ \E c \in {readUint8(bufr.br)} : BufCalled("readUint8", 8, c, c.br.err)

CallReadUint16 ==
  /\ BufReady
  /\ \E c \in {readUint16(bufr.br)} : BufCalled("readUint16", 16, c, c.br.err)

CallReadUint32 ==
  /\ BufReady
  /\ \E c \in {readUint32(bufr.br)} : BufCalled("readUint32", 32, c, c.br.err)

CallReadUintN(bits) ==
  /\ BufReady
  /\ \E c \in {readUintN(bufr.br, bits)} : BufCalled("readUintN", bits, c, c.br.err)

CallReadString ==
  /\ BufReady
  /\ \E c \in {readString(bufr.br)} : BufCalled("readString", 0, c, c.br.err)

NextBuf ==
  \/ CallReadUint8
  \/ CallReadUint16
  \/ CallReadUint32
  \/ \E bits \in UintNBits : CallReadUintN(bits)
  \/ CallReadString

SpecBuf == InitBuf /\ [][NextBuf]_vars

\* The zero value of what a primitive yields.
ZeroOf(op) ==
  IF op = "readUint32" THEN <<0, 0, 0, 0>>
  ELSE IF op = "readUintN" THEN U64Of(0)
  ELSE IF op = "readString" THEN <<>>
  ELSE 0

\* A primitive was called.
BufCall == bufr.op \notin {"none", "NewBufReader"}

\* Once a primitive has failed the error stays the first one, and a call made
\* with the error set returns it and the zero value and consumes nothing.
ErrorIsSticky ==
  BufCall =>
    /\ bufr.first # Nil => bufr.br.err = bufr.first
    /\ bufr.was # Nil =>
         /\ bufr.err = bufr.was
         /\ bufr.v = ZeroOf(bufr.op)
         /\ bufr.taken = 0

\* The call that failed first.
FailedFirst == BufCall /\ bufr.was = Nil /\ bufr.err # Nil

\* The widths readUintN reads.
ValidBits == {8, 16, 32, 64}

\* C23 as stated: the error is sticky, and a failing primitive consumes nothing.
FailingPrimitiveConsumesNothing ==
  /\ ErrorIsSticky
  /\ FailedFirst => bufr.v = ZeroOf(bufr.op) /\ bufr.taken = 0

\* C23, amended: the error is sticky; the primitive that fails first yields the
\* zero value, and consumes nothing when it is a fixed-width read short of bytes,
\* the rest of the body when it is a readString that finds no NUL, and the bytes
\* of the width asked for when it is a readUintN of a width it rejects.
StickyErrorAndWhatFailingCallsConsume ==
  /\ ErrorIsSticky
  /\ FailedFirst =>
       /\ bufr.v = ZeroOf(bufr.op)
       /\ bufr.taken =
            IF bufr.op = "readString" THEN bufr.had
            ELSE IF bufr.op = "readUintN" /\ bufr.bits \notin ValidBits /\ bufr.had >= bufr.bits \div 8
              THEN bufr.bits \div 8
            ELSE 0

\* A call made after a readUintN of a rejected width, with bytes left to read.
CallAfterFailureWithBytesLeft ==
  /\ BufCall
  /\ bufr.was = "invalid uintn read size"
  /\ Len(bufr.br.buf) >= 4
  /\ bufr.op \in {"readUint16", "readString"}

\* The ItemReferenceBox of the BoxMeta was parsed from a body that holds the
\* from-item id, the count and as many to-item ids as the count says, for every
\* entry (the ids are 16 bits wide in version 0, 32 bits otherwise).
IrefEntriesHoldTheirIDs(refs) ==
  \A i \in 1..Len(refs.ItemRefs) :
    Len(refs.ItemRefs[i].box.slurp) >=
      IF refs.Version = 0 THEN 4 + 2 * refs.ItemRefs[i].Count
      ELSE 6 + 4 * refs.ItemRefs[i].Count

\* C24: an iref box is parsed into the BoxMeta only if each of its entries holds
\* all the to-item ids its reference count declares; otherwise getMeta fails.
ShortIrefEntryFailsTheParse ==
  meta # NoValue /\ meta.ItemReference # NoValue => IrefEntriesHoldTheirIDs(meta.ItemReference)

\* C26: Push of the header AsHeader returned for a parsed hvcC box returns no
\* error, goes through the whole header, and hands the decoder the stored units
\* of the box (those of a size other than 0), whole, in array and unit order.
PushOfAsHeaderHandsOverStoredUnits ==
  ret.op = "Push" =>
    /\ ret.res = "value" /\ ret.err = Nil
    /\ dec.data = AsHeader(HevcConfig(item).b)
    /\ dec.pos = Len(dec.data)
    /\ dec.nals = [k \in 1..Len(StoredUnitsOfItem) |-> StoredUnitsOfItem[k].bytes]

\* Push has handed over the units of a header made of two arrays.
PushedUnitsOfTwoArrays ==
  /\ ret.op = "Push"
  /\ Len(HevcConfig(item).b.nalArray) >= 2
  /\ Len(dec.nals) >= 2
  /\ Len(dec.nals[1]) # Len(dec.nals[2])

RECURSIVE FramedUnits(_, _)
\* The units a slice is made of from position pos on (counted from 0), or
\* "malformed" when a length prefix is cut short or a size exceeds what is left.
FramedUnits(b, pos) ==
  IF pos >= Len(b) THEN <<>>
  ELSE IF pos + 4 > Len(b) \/ pos + 4 + BE32(SubSeq(b, pos + 1, pos + 4)) > Len(b)
    THEN "malformed"
  ELSE Let(FramedUnits(b, pos + 4 + BE32(SubSeq(b, pos + 1, pos + 4))), LAMBDA rest :
    IF rest = "malformed" THEN rest
    ELSE <<SubSeq(b, pos + 5, pos + 4 + BE32(SubSeq(b, pos + 1, pos + 4)))>> \o rest)

\* C27: Push returns nil or an error for every slice: an error when a length
\* prefix is cut short or a size exceeds the bytes left, and otherwise nil after
\* handing over every unit, those of size 0 and the one that ends the slice too.
PushReturnsNilOrError ==
  ret.op = "Push" =>
    /\ ret.res \in {"value", "error"}
    /\ ret.res = "error" <=> FramedUnits(dec.data, 0) = "malformed"
    /\ ret.res = "value" => dec.nals = FramedUnits(dec.data, 0) /\ dec.pos = Len(dec.data)

\* The item of the source with the given id, the header of its own hvcC box and
\* its own data.
ItemOfSource(id) == ItemByID(Open(ra), id)

HeaderOfItem(id) == AsHeader(HevcConfig(ItemOfSource(id).it).b)

DataOfItem(id) == GetItemData(ItemOfSource(id).f, ItemOfSource(id).it).data.bytes

\* The k-th call of the last Decode was the given call on the given decoder.
IsCall(k, which, call) ==
  /\ k \in 1..Len(dec.calls)
  /\ dec.calls[k].dec = which
  /\ dec.calls[k].call = call

\* The items DecodeImage was called for, in the order of the calls.
DecodedItems ==
  Let(SelectSeq(dec.calls, LAMBDA c : c.call = "DecodeImage"), LAMBDA ds :
    [k \in 1..Len(ds) |-> ds[k].item])

\* C25: every DecodeImage call on the HEVC decoder is for an item's own data and
\* follows a Push of the header of that item's own hvcC box, which follows a
\* Reset; a Reset for an item is followed by that Push and the Push by that
\* DecodeImage.  Every DecodeImage call on the AV1 decoder is for the item's own
\* data and follows a Reset, and the AV1 decoder gets no Push.  A Decode that
\* succeeds has done so for the primary item or for each tile in turn.
DecoderGetsResetHeaderData ==
  dec.op = "Decode" =>
    /\ \A k \in 1..Len(dec.calls) :
         /\ IsCall(k, "hevc", "DecodeImage") =>
              /\ dec.calls[k].bytes = DataOfItem(dec.calls[k].item)
              /\ IsCall(k - 1, "hevc", "Push")
              /\ dec.calls[k - 1].item = dec.calls[k].item
         /\ IsCall(k, "hevc", "Push") =>
              /\ dec.calls[k].bytes = HeaderOfItem(dec.calls[k].item)
              /\ IsCall(k - 1, "hevc", "Reset")
              /\ dec.calls[k - 1].item = dec.calls[k].item
              /\ IsCall(k + 1, "hevc", "DecodeImage")
         /\ IsCall(k, "hevc", "Reset") => IsCall(k + 1, "hevc", "Push")
         /\ IsCall(k, "av1", "DecodeImage") =>
              /\ dec.calls[k].bytes = DataOfItem(dec.calls[k].item)
              /\ IsCall(k - 1, "av1", "Reset")
              /\ dec.calls[k - 1].item = dec.calls[k].item
         /\ IsCall(k, "av1", "Reset") => IsCall(k + 1, "av1", "DecodeImage")
         /\ ~IsCall(k, "av1", "Push")
    /\ ret.res = "value" =>
         DecodedItems = IF PrimaryIsGrid THEN [k \in 1..Len(consumed) |-> consumed[k].id]
                        ELSE <<PrimaryOfSource.it.ID>>

\* Decode has succeeded on a grid whose tiles are hvc1 and av01 items in turn.
DecodedTilesOfBothKinds ==
  /\ dec.op = "Decode" /\ ret.res = "value"
  /\ Len(DecodedItems) = 4
  /\ \E k \in 1..Len(dec.calls) : IsCall(k, "hevc", "DecodeImage") /\ dec.calls[k].item = 4
  /\ \E k \in 1..Len(dec.calls) : IsCall(k, "av1", "DecodeImage") /\ dec.calls[k].item = 3

\* The calls of the last Decode on the decoder named which.
CallsOn(which) == SelectSeq(dec.calls, LAMBDA c : c.dec = which)

\* C28: in a run of Decode every DecodeImage call on the HEVC decoder comes after
\* a Reset with nothing but the Push in between and starts with hasImage false;
\* when Decode has returned, every picture the decoder handed out has been
\* released exactly once, and a decoder that was made has been freed exactly
\* once, by the last call it got, whether Decode returned an image or an error.
DecoderIsResetAndFreedOnce ==
  dec.op = "Decode" =>
    /\ \A k \in 1..Len(dec.calls) :
         IsCall(k, "hevc", "DecodeImage") =>
           /\ ~dec.calls[k].hasImage
           /\ IsCall(k - 2, "hevc", "Reset")
    /\ IF dec.hevc = NoValue THEN CallsOn("hevc") = <<>>
       ELSE /\ dec.hevc.ctx = "freed" /\ dec.hevc.frees = 1 /\ ~dec.hevc.hasImage
            /\ \A p \in 1..Len(dec.hevc.pics) : dec.hevc.pics[p] = 1
            /\ CallsOn("hevc")[1].call = "NewDecoder"
            /\ \A k \in 1..Len(CallsOn("hevc")) :
                 CallsOn("hevc")[k].call = "Free" <=> k = Len(CallsOn("hevc"))
    /\ IF dec.av1 = NoValue THEN CallsOn("av1") = <<>>
       ELSE /\ dec.av1.ctx = "freed" /\ dec.av1.frees = 1
            /\ \A k \in 1..Len(CallsOn("av1")) :
                 CallsOn("av1")[k].call = "Free" <=> k = Len(CallsOn("av1"))

\* Decode has returned an error after its HEVC decoder had handed out two
\* pictures, the second one for a DecodeImage that failed.
ErrorReturnAfterTwoPictures ==
  /\ dec.op = "Decode" /\ ret.res = "error"
  /\ ret.err = "image too big"
  /\ dec.hevc # NoValue
  /\ Len(dec.hevc.pics) = 2

\* C29: the image Decode returns has planes that are no part of a picture the
\* decoder has released or of a decoder that has been freed, and every tile of
\* a grid is copied into the output right after its DecodeImage.
ReturnedImageOutlivesDecoder ==
  dec.op = "Decode" /\ ret.res = "value" =>
    /\ dec.img.planes = "picture" =>
         dec.hevc.ctx = "live" /\ dec.hevc.pics[dec.img.pic] = 0
    /\ \A k \in 1..Len(dec.calls) :
         dec.calls[k].call = "copy" =>
           k > 1 /\ dec.calls[k - 1].call = "DecodeImage"

\* C30: a Decode of a grid that succeeds returns an image whose Rect is
\* (0,0)-(width,height) of the primary item's ispe and lies within the stitched
\* planes of tileWidth * columns by tileHeight * rows, and all its tiles had the
\* dimensions of the first.
GridRectLiesWithinStitchedPlanes ==
  dec.op = "Decode" /\ ret.res = "value" /\ PrimaryIsGrid =>
    /\ dec.img.w = BE32(SpatialExtents(PrimaryOfSource.it).p.ImageWidth)
    /\ dec.img.h = BE32(SpatialExtents(PrimaryOfSource.it).p.ImageHeight)
    /\ dec.img.bufW = dec.o.pics[1][1] * GridColumns
    /\ dec.img.bufH = dec.o.pics[1][2] * GridRows
    /\ dec.img.w <= dec.img.bufW
    /\ dec.img.h <= dec.img.bufH
    /\ \A k \in 1..Len(DecodedItems) : dec.o.pics[k] = dec.o.pics[1]

=============================================================================
